---- MODULE Spec2Model ----
(***************************************************************************)
(* Verification model of observable-agent-starter: the triage / routing   *)
(* agent (agents/triage/agent.py, agents/routing/agent.py), its keyword   *)
(* fallback policy (policy.py), its environment configuration helpers     *)
(* (config.py) and the FastAPI wrapper (examples/fastapi_server.py).      *)
(*                                                                         *)
(* Python strings that the code inspects character by character (request  *)
(* texts, routes, .env lines, environment names and values) are modelled   *)
(* as sequences of one-character strings.  Python None is the record None. *)
(***************************************************************************)
EXTENDS Integers, Sequences, FiniteSets, TLC

VARIABLES
    env,              \* os.environ: function from the names that are set to their values
    dotenv,           \* the candidate .env files, in the order config.py visits them
    langfuse_pkg,     \* whether `from langfuse import Langfuse` succeeded (config.Langfuse is not None)
    dspy_lm,          \* dspy.settings.lm
    LANGFUSE_CLIENT,  \* config._LANGFUSE_CLIENT
    lms_built,        \* number of dspy.LM objects constructed so far
    clients_built,    \* number of Langfuse clients constructed successfully so far
    starter,          \* TRUE once a StarterAgent has been constructed
    agent,            \* fastapi_server.agent (the module global)
    files,            \* the target repository's working tree: file name -> content
    embedder,         \* the _OpenAIEmbedder of make_semantic_metric (url, _cache), None before it is built
    last              \* what the last operation did and returned

vars == <<env, dotenv, langfuse_pkg, dspy_lm, LANGFUSE_CLIENT, lms_built,
          clients_built, starter, agent, files, embedder, last>>

None == [py |-> "None"]

-----------------------------------------------------------------------------
(* Bounds                                                                  *)

MaxFrags == 3        \* a request text is at most this many fragments long
MaxLms == 2          \* dspy.LM objects constructed in one run
MaxClients == 2      \* Langfuse clients constructed in one run
NumCandidates == 2   \* candidate .env files visited (the code visits CWD + 4 parents)
MaxLines == 3        \* a content given to strip_markdown_fences has at most this many lines

-----------------------------------------------------------------------------
(* Python str helpers                                                      *)

Whitespace == {" ", "\t", "\n", "\r"}

UpperAlpha == <<"A","B","C","D","E","F","G","H","I","J","K","L","M",
                "N","O","P","Q","R","S","T","U","V","W","X","Y","Z">>
LowerAlpha == <<"a","b","c","d","e","f","g","h","i","j","k","l","m",
                "n","o","p","q","r","s","t","u","v","w","x","y","z">>

LowerChar(c) ==
    IF \E i \in 1..26 : UpperAlpha[i] = c
    THEN LowerAlpha[CHOOSE i \in 1..26 : UpperAlpha[i] = c]
    ELSE c

\* str.lower()
lower(s) == [i \in 1..Len(s) |-> LowerChar(s[i])]

RECURSIVE LStrip(_, _)
LStrip(s, cs) == IF s # <<>> /\ Head(s) \in cs THEN LStrip(Tail(s), cs) ELSE s

RECURSIVE RStrip(_, _)
RStrip(s, cs) ==
    IF s # <<>> /\ s[Len(s)] \in cs THEN RStrip(SubSeq(s, 1, Len(s) - 1), cs) ELSE s

\* str.strip(chars); str.strip() is strip(s, Whitespace)
strip(s, cs) == RStrip(LStrip(s, cs), cs)

\* Python `w in t` for strings
Contains(w, t) == \E i \in 1..(Len(t) - Len(w) + 1) : SubSeq(t, i, i + Len(w) - 1) = w

\* Python any(w in t for w in ws)
AnyIn(ws, t) == \E i \in 1..Len(ws) : Contains(ws[i], t)

startswith(s, p) == Len(s) >= Len(p) /\ SubSeq(s, 1, Len(p)) = p

-----------------------------------------------------------------------------
(* agents/triage/policy.py                                                 *)

billing == <<"b","i","l","l","i","n","g">>
tech == <<"t","e","c","h">>
sales == <<"s","a","l","e","s">>

BillingWords == << <<"i","n","v","o","i","c","e">>, <<"c","h","a","r","g","e">>,
                   <<"r","e","f","u","n","d">>, <<"b","i","l","l","i","n","g">> >>
TechWords == << <<"e","r","r","o","r">>, <<"b","u","g">>,
                <<"d","o","e","s","n","'","t"," ","w","o","r","k">>,
                <<"c","r","a","s","h">>, <<"a","p","i">> >>
SalesWords == << <<"p","r","i","c","i","n","g">>, <<"q","u","o","t","e">>,
                 <<"d","e","m","o">>, <<"t","r","i","a","l">> >>

neutral_policy_swapped(text) ==
    LET t == lower(text) IN
    IF AnyIn(BillingWords, t) THEN billing
    ELSE IF AnyIn(SalesWords, t) THEN sales
    ELSE IF AnyIn(TechWords, t) THEN tech
    ELSE tech

neutral_policy(text) ==
    LET t == lower(text) IN
    IF AnyIn(BillingWords, t) THEN billing
    ELSE IF AnyIn(TechWords, t) THEN tech
    ELSE IF AnyIn(SalesWords, t) THEN sales
    ELSE tech

\* Fragments the request texts are built from: keywords in mixed case, halves
\* of keywords that only form one when adjacent, words that contain a keyword
\* ("capital" contains "api"), whitespace and a neutral word.
Fragments == { <<"I","n","v","o","i","c","e">>, <<"R","E","F","U","N","D">>,
               <<"c","a","p","i","t","a","l">>, <<"b","u","g">>,
               <<"d","o","e","s","n","'","t">>, <<"w","o","r","k">>,
               <<"p","r","i","c">>, <<"i","n","g">>, <<"D","e","m","o">>,
               <<"t","r","i">>, <<"a","l">>, <<" ">>, <<"\n","\t">>,
               <<"h","e","l","l","o">> }

RECURSIVE TextsOfLen(_)
TextsOfLen(n) ==
    IF n = 0 THEN { <<>> }
    ELSE { f \o t : f \in Fragments, t \in TextsOfLen(n - 1) }

Texts == UNION { TextsOfLen(n) : n \in 0..MaxFrags }

\* The state of a fresh process: nothing configured, no agent constructed
FreshProcess ==
    /\ dspy_lm = None
    /\ LANGFUSE_CLIENT = None
    /\ lms_built = 0
    /\ clients_built = 0
    /\ starter = FALSE
    /\ agent = None
    /\ files = << >>
    /\ embedder = None

InitPolicy ==
    /\ FreshProcess
    /\ env = << >>
    /\ dotenv = << >>
    /\ langfuse_pkg = TRUE
    /\ \E text \in Texts : last = [op |-> "input", text |-> text]

\* A call neutral_policy(text) from a test or a caller
NeutralPolicyCall ==
    /\ last.op = "input"
    /\ last' = [op |-> "neutral_policy", text |-> last.text, ret |-> neutral_policy(last.text)]
    /\ UNCHANGED <<files, embedder>>
    /\ UNCHANGED <<env, dotenv, langfuse_pkg, dspy_lm, LANGFUSE_CLIENT, lms_built,
                   clients_built, starter, agent>>

NextPolicy == NeutralPolicyCall

SpecPolicy == InitPolicy /\ [][NextPolicy]_vars

\* C5: neutral_policy(text) is the decision list billing > tech > sales > tech
\* over the lower-cased text: billing iff a billing keyword occurs; sales iff
\* a sales keyword occurs and no billing and no tech keyword does; tech
\* otherwise (a tech keyword without a billing one, or no keyword at all).
HasWord(ws, text) ==
    \E i \in 1..Len(ws), j \in 1..Len(text) :
        /\ j + Len(ws[i]) - 1 <= Len(text)
        /\ \A k \in 1..Len(ws[i]) : LowerChar(text[j + k - 1]) = ws[i][k]

PolicyIsDecisionList ==
    last.op = "neutral_policy" =>
        LET b == HasWord(BillingWords, last.text)
            t == HasWord(TechWords, last.text)
            s == HasWord(SalesWords, last.text)
        IN /\ (last.ret = billing) <=> b
           /\ (last.ret = sales) <=> (~b /\ ~t /\ s)
           /\ (last.ret = tech) <=> (~b /\ (t \/ ~s))
           /\ last.ret \in {billing, tech, sales}

\* A text with a sales keyword placed before a tech keyword is routed to tech,
\* and one with a keyword formed across two fragments has been classified.
PolicyWitness ==
    /\ last.op = "neutral_policy"
    /\ last.text = <<"D","e","m","o">> \o <<" ">> \o <<"b","u","g">>
    /\ last.ret = tech

-----------------------------------------------------------------------------
(* agents/triage/config.py: _load_dotenv_into_env                          *)

\* A candidate path is absent, present but unreadable (read_text raises), or a
\* text file.
Missing == [kind |-> "missing"]
Unreadable == [kind |-> "unreadable"]
TextFile(text) == [kind |-> "file", text |-> text]

\* str.splitlines() for texts whose only line boundary is "\n"
RECURSIVE splitlines(_)
splitlines(s) ==
    IF s = <<>> THEN <<>>
    ELSE IF \E i \in 1..Len(s) : s[i] = "\n"
         THEN LET i == CHOOSE i \in 1..Len(s) :
                         s[i] = "\n" /\ \A j \in 1..(i - 1) : s[j] # "\n"
              IN <<SubSeq(s, 1, i - 1)>> \o splitlines(SubSeq(s, i + 1, Len(s)))
         ELSE <<s>>

\* Index of the first "=" of a line, 0 when there is none
FirstEq(line) ==
    IF \E i \in 1..Len(line) : line[i] = "="
    THEN CHOOSE i \in 1..Len(line) : line[i] = "=" /\ \A j \in 1..(i - 1) : line[j] # "="
    ELSE 0

\* Lines 43-50: the assignment a raw line stands for, or None when the line
\* is skipped (blank, comment, no "=").
ParseLine(raw) ==
    LET line == strip(raw, Whitespace) IN
    IF line = <<>> \/ startswith(line, <<"#">>) THEN None
    ELSE IF FirstEq(line) = 0 THEN None
    ELSE LET i == FirstEq(line)
             key == strip(SubSeq(line, 1, i - 1), Whitespace)
             value == strip(strip(strip(SubSeq(line, i + 1, Len(line)), Whitespace),
                                  {"\""}), Whitespace)
         IN [key |-> key, value |-> value]

\* Lines 51-52 with the `key not in os.environ` test dropped
SetIfAbsent_overwrite(e, key, value) ==
    IF key # <<>> THEN (key :> value) @@ e ELSE e

\* Lines 51-52
SetIfAbsent(e, key, value) ==
    IF key # <<>> /\ key \notin DOMAIN e THEN (key :> value) @@ e ELSE e

RECURSIVE LoadLines(_, _)
LoadLines(e, lines) ==
    IF lines = <<>> THEN e
    ELSE LET a == ParseLine(Head(lines)) IN
         LoadLines(IF a = None THEN e ELSE SetIfAbsent(e, a.key, a.value), Tail(lines))

RECURSIVE LoadCandidates(_, _)
LoadCandidates(e, candidates) ==
    IF candidates = <<>> THEN e
    ELSE LET f == Head(candidates) IN
         LoadCandidates(IF f.kind = "file" THEN LoadLines(e, splitlines(f.text)) ELSE e,
                        Tail(candidates))

\* cwdOk = FALSE: Path.cwd() raised while the candidate list was being built
load_dotenv_into_env(e, candidates, cwdOk) ==
    IF cwdOk THEN LoadCandidates(e, candidates) ELSE e

\* The .env files of the loader's specification: a plain assignment without
\* a final newline; assignments padded with blanks, quoted and with a second
\* "="; lines the loader skips (comment, empty key, no "=", blank) followed by
\* two assignments of one key; an empty value; and an empty file.
DotFiles ==
    { Missing, Unreadable, TextFile(<<>>),
      TextFile(<<"A","=","1">>),
      TextFile(<<" ","A"," ","="," ","2"," ","\n","B","=","\"","a","=","b","\""," ","\n">>),
      TextFile(<<"#","A","=","3","\n","=","5","\n","B","\n"," ","\n","A","=","4","\n","A","=","5","\n">>),
      TextFile(<<"B","=","x","\n","\n","A","=","\n">>) }

VarA == <<"A">>
VarB == <<"B">>
DotEnvs == { << >>, (VarA :> <<"0">>), (VarB :> <<>>) }

InitDotenv ==
    /\ FreshProcess
    /\ langfuse_pkg = TRUE
    /\ env \in DotEnvs
    /\ dotenv \in [1..NumCandidates -> DotFiles]
    /\ last = [op |-> "init"]

LoadDotenvCall ==
    /\ \E cwdOk \in BOOLEAN :
         /\ env' = load_dotenv_into_env(env, dotenv, cwdOk)
         /\ last' = [op |-> "_load_dotenv_into_env", before |-> env, cwdOk |-> cwdOk]
    /\ UNCHANGED <<files, embedder>>
    /\ UNCHANGED <<dotenv, langfuse_pkg, dspy_lm, LANGFUSE_CLIENT, lms_built,
                   clients_built, starter, agent>>

NextDotenv == LoadDotenvCall

SpecDotenv == InitDotenv /\ [][NextDotenv]_vars

\* The assignments of the readable candidates, in visiting order
RECURSIVE Assignments(_)
Assignments(candidates) ==
    IF candidates = <<>> THEN <<>>
    ELSE LET f == Head(candidates)
             here == IF f.kind = "file"
                     THEN SelectSeq([i \in 1..Len(splitlines(f.text)) |->
                                        ParseLine(splitlines(f.text)[i])],
                                    LAMBDA a : a # None /\ a.key # <<>>)
                     ELSE <<>>
         IN here \o Assignments(Tail(candidates))

\* C10: _load_dotenv_into_env leaves every variable that was set before the
\* call with its value, and a variable it adds gets the value of the earliest
\* assignment to it in the candidate order (CWD first).
DotenvKeepsExisting ==
    last.op = "_load_dotenv_into_env" =>
        /\ \A k \in DOMAIN last.before : k \in DOMAIN env /\ env[k] = last.before[k]
        /\ \A k \in DOMAIN env \ DOMAIN last.before :
             LET as == Assignments(dotenv) IN
             /\ \E i \in 1..Len(as) : as[i].key = k
             /\ LET i == CHOOSE i \in 1..Len(as) :
                            as[i].key = k /\ \A j \in 1..(i - 1) : as[j].key # k
                IN env[k] = as[i].value

\* B was set (to the empty string) before the call and the second candidate
\* assigns it; A is new and both candidates assign it (4 and 5, then 2): B
\* keeps its value and A takes the first assignment of the first candidate.
DotenvWitness ==
    /\ last.op = "_load_dotenv_into_env"
    /\ last.cwdOk
    /\ last.before = (VarB :> <<>>)
    /\ dotenv[1] = TextFile(<<"#","A","=","3","\n","=","5","\n","B","\n"," ","\n","A","=","4","\n","A","=","5","\n">>)
    /\ dotenv[2] = TextFile(<<" ","A"," ","="," ","2"," ","\n","B","=","\"","a","=","b","\""," ","\n">>)
    /\ env = (VarA :> <<"4">>) @@ (VarB :> <<>>)

-----------------------------------------------------------------------------
(* agents/triage/config.py: configure_lm_from_env                          *)

OPENAI_API_KEY == <<"O","P","E","N","A","I","_","A","P","I","_","K","E","Y">>
OPENAI_MODEL == <<"O","P","E","N","A","I","_","M","O","D","E","L">>
OPENAI_BASE_URL == <<"O","P","E","N","A","I","_","B","A","S","E","_","U","R","L">>
OPENAI_TEMPERATURE ==
    <<"O","P","E","N","A","I","_","T","E","M","P","E","R","A","T","U","R","E">>
DefaultModel == <<"o","p","e","n","a","i","/","g","p","t","-","4","o","-","m","i","n","i">>

\* `if os.getenv(name):` - the variable is set and not the empty string
Truthy(e, name) == name \in DOMAIN e /\ e[name] # <<>>

\* os.getenv(name, default)
getenv(e, name, default) == IF name \in DOMAIN e THEN e[name] ELSE default

Digits == {"0","1","2","3","4","5","6","7","8","9"}

\* float(s) raises ValueError; decided here for plain decimal literals only
\* (digits with at most one "."), which is all the model's values are.
FloatValueError(s) ==
    \/ \E i \in 1..Len(s) : s[i] \notin Digits \cup {"."}
    \/ Cardinality({i \in 1..Len(s) : s[i] = "."}) > 1
    \/ ~ \E i \in 1..Len(s) : s[i] \in Digits

\* Lines 81-92: the keyword arguments dspy.LM is constructed with
lm_kwargs(e) ==
    ("api_key" :> e[OPENAI_API_KEY])
    @@ (IF Truthy(e, OPENAI_BASE_URL) THEN ("base_url" :> e[OPENAI_BASE_URL]) ELSE << >>)
    @@ (IF Truthy(e, OPENAI_TEMPERATURE) /\ ~FloatValueError(e[OPENAI_TEMPERATURE])
        THEN ("temperature" :> e[OPENAI_TEMPERATURE]) ELSE << >>)

\* Line 94: the n-th dspy.LM object of the process
NewLM(e, n) == [id |-> n, model |-> getenv(e, OPENAI_MODEL, DefaultModel),
                kwargs |-> lm_kwargs(e)]

\* Lines 69-73 with the early return dropped
AlreadyConfigured_never(lm) == FALSE

\* Lines 69-73: "Already configured?"
AlreadyConfigured(lm) == lm # None

\* Line 76 testing `api_key is None` instead of `not api_key`
ApiKeyMissing_is_none(e) == OPENAI_API_KEY \notin DOMAIN e

\* Lines 75-76
ApiKeyMissing(e) == ~Truthy(e, OPENAI_API_KEY)

\* What the two configure calls of lines 99-109 may do with the new LM:
\*   ok                both calls return and the LM is visible afterwards
\*   settings_raises   dspy.settings.configure raises; nothing is set
\*   configure_raises  dspy.settings.configure sets the LM, dspy.configure raises
\*   invisible         both calls return but the LM is not visible (lines 112-121)
ConfigureOutcomes == {"ok", "settings_raises", "configure_raises", "invisible"}

\* The whole of configure_lm_from_env: the environment after the .env load,
\* dspy.settings.lm on return, the return value, and what was constructed.
configure_lm_from_env(e, candidates, cwdOk, lm, n, outcome) ==
    LET e1 == load_dotenv_into_env(e, candidates, cwdOk) IN
    IF AlreadyConfigured(lm)
    THEN [env |-> e1, lm |-> lm, ret |-> TRUE, built |-> 0, configure_calls |-> 0]
    ELSE IF ApiKeyMissing(e1)
    THEN [env |-> e1, lm |-> lm, ret |-> FALSE, built |-> 0, configure_calls |-> 0]
    ELSE LET new == NewLM(e1, n + 1) IN
         [env |-> e1,
          lm |-> IF outcome \in {"ok", "configure_raises"} THEN new ELSE lm,
          ret |-> (outcome = "ok"),
          built |-> 1,
          configure_calls |-> IF outcome = "settings_raises" THEN 1 ELSE 2]

\* Outcomes of the configure calls that matter for a call made in this state
OutcomesFor(e, candidates, cwdOk, lm) ==
    IF configure_lm_from_env(e, candidates, cwdOk, lm, 0, "ok").built = 1
    THEN ConfigureOutcomes ELSE {"ok"}

Key1 == <<"k","1">>
Key2 == <<"k","2">>

\* Values the environment of the LM specification takes
LmEnvChoices ==
    [name : {OPENAI_API_KEY}, value : {<<>>, Key1, Key2}]
        \cup [name : {OPENAI_MODEL}, value : {<<"m">>}]
        \cup [name : {OPENAI_BASE_URL}, value : {<<"u">>}]
        \cup [name : {OPENAI_TEMPERATURE}, value : {<<"0",".","7">>, <<"h","o","t">>}]

\* .env files of the LM specification: none, or one in the second candidate
\* directory that supplies a key and a model
LmDotenvs ==
    { [i \in 1..NumCandidates |-> Missing],
      [i \in 1..NumCandidates |->
          IF i = NumCandidates
          THEN TextFile(<<"#"," ","k","e","y","s","\n">> \o OPENAI_API_KEY
                        \o <<"=","\"","k","1","\"","\n">>)
          ELSE Missing] }

InitLm ==
    /\ FreshProcess
    /\ langfuse_pkg = TRUE
    /\ env = << >>
    /\ dotenv \in LmDotenvs
    /\ last = [op |-> "init"]

\* os.environ[name] = value by the embedding process
SetEnvLm ==
    /\ \E c \in LmEnvChoices :
         /\ env' = (c.name :> c.value) @@ env
         /\ last' = [op |-> "setenv"]
    /\ UNCHANGED <<files, embedder>>
    /\ UNCHANGED <<dotenv, langfuse_pkg, dspy_lm, LANGFUSE_CLIENT, lms_built,
                   clients_built, starter, agent>>

\* del os.environ[name] by the embedding process
DelEnvLm ==
    /\ \E name \in DOMAIN env :
         /\ env' = [k \in DOMAIN env \ {name} |-> env[k]]
         /\ last' = [op |-> "delenv"]
    /\ UNCHANGED <<files, embedder>>
    /\ UNCHANGED <<dotenv, langfuse_pkg, dspy_lm, LANGFUSE_CLIENT, lms_built,
                   clients_built, starter, agent>>

ConfigureLmCall ==
    /\ \E cwdOk \in BOOLEAN :
       \E outcome \in OutcomesFor(env, dotenv, cwdOk, dspy_lm) :
         LET r == configure_lm_from_env(env, dotenv, cwdOk, dspy_lm, lms_built, outcome) IN
         /\ lms_built + r.built <= MaxLms
         /\ env' = r.env
         /\ dspy_lm' = r.lm
         /\ lms_built' = lms_built + r.built
         /\ last' = [op |-> "configure_lm_from_env", ret |-> r.ret, lm_before |-> dspy_lm,
                     built |-> r.built, configure_calls |-> r.configure_calls]
    /\ UNCHANGED <<files, embedder>>
    /\ UNCHANGED <<dotenv, langfuse_pkg, LANGFUSE_CLIENT, clients_built, starter, agent>>

NextLm == SetEnvLm \/ DelEnvLm \/ ConfigureLmCall

SpecLm == InitLm /\ [][NextLm]_vars

\* C6: a call of configure_lm_from_env made while an LM is visible returns
\* True, constructs no LM, makes no configure call and leaves the same LM
\* object in dspy.settings, whatever the OPENAI_* variables are.
ConfigureLmIdempotent ==
    (last.op = "configure_lm_from_env" /\ last.lm_before # None) =>
        /\ last.ret = TRUE
        /\ dspy_lm = last.lm_before
        /\ last.built = 0
        /\ last.configure_calls = 0

\* A repeated call after the key and the model in the environment were changed
ConfigureLmIdempotentWitness ==
    /\ last.op = "configure_lm_from_env"
    /\ last.lm_before # None
    /\ last.ret = TRUE
    /\ dspy_lm.kwargs["api_key"] = Key1
    /\ dspy_lm.model = DefaultModel
    /\ Truthy(env, OPENAI_API_KEY) /\ env[OPENAI_API_KEY] = Key2
    /\ Truthy(env, OPENAI_MODEL)

\* C7: a call made with no LM configured and OPENAI_API_KEY unset or empty
\* once the .env files are loaded returns False and leaves dspy.settings
\* without an LM.
ConfigureLmWithoutKey ==
    (/\ last.op = "configure_lm_from_env"
     /\ last.lm_before = None
     /\ ~Truthy(env, OPENAI_API_KEY)) =>
        /\ last.ret = FALSE
        /\ dspy_lm = None
        /\ last.built = 0

\* The key is set to the empty string, so the .env file does not supply one
ConfigureLmWithoutKeyWitness ==
    /\ last.op = "configure_lm_from_env"
    /\ last.lm_before = None
    /\ OPENAI_API_KEY \in DOMAIN env
    /\ env[OPENAI_API_KEY] = <<>>
    /\ dotenv[NumCandidates] # Missing
    /\ last.ret = FALSE
    /\ dspy_lm = None

-----------------------------------------------------------------------------
(* agents/triage/config.py: configure_langfuse_from_env,                   *)
(* log_langfuse_generation                                                 *)

LANGFUSE_PUBLIC_KEY == <<"L","A","N","G","F","U","S","E","_","P","U","B","L","I","C","_","K","E","Y">>
LANGFUSE_SECRET_KEY == <<"L","A","N","G","F","U","S","E","_","S","E","C","R","E","T","_","K","E","Y">>
LANGFUSE_HOST == <<"L","A","N","G","F","U","S","E","_","H","O","S","T">>
DefaultHost ==
    <<"h","t","t","p","s",":","/","/","c","l","o","u","d",".","l","a","n","g","f","u","s","e",".","c","o","m">>

\* Line 133 dropped: the cached client is never reused
HasClient_never(client) == FALSE

\* Line 133: `_LANGFUSE_CLIENT is not None`
HasClient(client) == client # None

\* Lines 136-138: `not (public_key and secret_key)`
CredentialsMissing(e) == ~(Truthy(e, LANGFUSE_PUBLIC_KEY) /\ Truthy(e, LANGFUSE_SECRET_KEY))

\* Lines 145-149: the n-th Langfuse client of the process
NewClient(e, n) == [id |-> n, public_key |-> e[LANGFUSE_PUBLIC_KEY],
                    secret_key |-> e[LANGFUSE_SECRET_KEY],
                    host |-> getenv(e, LANGFUSE_HOST, DefaultHost)]

\* The whole of configure_langfuse_from_env: _LANGFUSE_CLIENT on return, the
\* return value and whether a client was constructed.  ctorOk = FALSE: the
\* Langfuse constructor raised (lines 150-152).
configure_langfuse_from_env(pkg, client, e, n, ctorOk) ==
    IF ~pkg THEN [client |-> client, ret |-> None, built |-> 0]
    ELSE IF HasClient(client) THEN [client |-> client, ret |-> client, built |-> 0]
    ELSE IF CredentialsMissing(e) THEN [client |-> client, ret |-> None, built |-> 0]
    ELSE IF ctorOk
         THEN [client |-> NewClient(e, n + 1), ret |-> NewClient(e, n + 1), built |-> 1]
         ELSE [client |-> None, ret |-> None, built |-> 0]

\* Whether the constructor is reached by a call made in this state
CtorChoices(pkg, client, e) ==
    IF pkg /\ ~HasClient(client) /\ ~CredentialsMissing(e) THEN BOOLEAN ELSE {TRUE}

\* The tracing API calls of lines 174-184, in order
TracingCalls == <<"start_observation", "update", "end", "flush">>

\* Lines 185-186 removed: an exception raised in the try block reaches the caller
ExceptException_reraise(raisedInTry) == raisedInTry

\* Lines 185-186: `except Exception` logs and swallows; TRUE iff the exception
\* leaves log_langfuse_generation
ExceptException(raisedInTry) == FALSE

\* The whole of log_langfuse_generation, called in process state st (package,
\* cached client, environment, clients built, LM).  failAt = 0: no tracing call
\* raises; failAt = i: the i-th call of TracingCalls raises an Exception.
log_langfuse_generation(st, ctorOk, name, input_text, output_payload, metadata, failAt) ==
    LET c == configure_langfuse_from_env(st.pkg, st.client, st.env, st.clients_built, ctorOk)
        lm == st.lm
    IN
    IF c.ret = None
    THEN [client |-> c.client, built |-> c.built, client_ret |-> c.ret,
          calls |-> <<>>, raised |-> FALSE, observation |-> None]
    ELSE [client |-> c.client, built |-> c.built, client_ret |-> c.ret,
          calls |-> SubSeq(TracingCalls, 1, IF failAt = 0 THEN Len(TracingCalls) ELSE failAt),
          raised |-> ExceptException(failAt # 0),
          observation |->
              IF failAt = 1 THEN None
              ELSE [name |-> name, as_type |-> "generation",
                    input |-> [ticket |-> input_text], output |-> output_payload,
                    metadata |-> metadata,
                    model |-> IF lm = None THEN None ELSE [str |-> lm.model]]]

\* Failure points that matter for a call made in this state
FailChoices(pkg, client, e, ctorOk) ==
    IF configure_langfuse_from_env(pkg, client, e, 0, ctorOk).ret = None
    THEN {0} ELSE 0..Len(TracingCalls)

Pk1 == <<"p","k">>
Sk1 == <<"s","k">>
Sk2 == <<"s","k","2">>
Host1 == <<"h">>

LangfuseEnvChoices ==
    [name : {LANGFUSE_PUBLIC_KEY}, value : {<<>>, Pk1}]
        \cup [name : {LANGFUSE_SECRET_KEY}, value : {Sk1, Sk2}]
        \cup [name : {LANGFUSE_HOST}, value : {Host1}]

InitLangfuse ==
    /\ files = << >>
    /\ embedder = None
    /\ LANGFUSE_CLIENT = None
    /\ clients_built = 0
    /\ starter = FALSE
    /\ agent = None
    /\ langfuse_pkg \in BOOLEAN
    /\ \/ dspy_lm = None /\ lms_built = 0
       \/ dspy_lm = NewLM((OPENAI_API_KEY :> Key1), 1) /\ lms_built = 1
    /\ env = << >>
    /\ dotenv = [i \in 1..NumCandidates |-> Missing]
    /\ last = [op |-> "init"]

SetEnvLangfuse ==
    /\ \E c \in LangfuseEnvChoices :
         /\ env' = (c.name :> c.value) @@ env
         /\ last' = [op |-> "setenv"]
    /\ UNCHANGED <<files, embedder>>
    /\ UNCHANGED <<dotenv, langfuse_pkg, dspy_lm, LANGFUSE_CLIENT, lms_built,
                   clients_built, starter, agent>>

DelEnvLangfuse ==
    /\ \E name \in DOMAIN env :
         /\ env' = [k \in DOMAIN env \ {name} |-> env[k]]
         /\ last' = [op |-> "delenv"]
    /\ UNCHANGED <<files, embedder>>
    /\ UNCHANGED <<dotenv, langfuse_pkg, dspy_lm, LANGFUSE_CLIENT, lms_built,
                   clients_built, starter, agent>>

ConfigureLangfuseCall ==
    /\ \E ctorOk \in CtorChoices(langfuse_pkg, LANGFUSE_CLIENT, env) :
         LET r == configure_langfuse_from_env(langfuse_pkg, LANGFUSE_CLIENT, env,
                                              clients_built, ctorOk) IN
         /\ clients_built + r.built <= MaxClients
         /\ LANGFUSE_CLIENT' = r.client
         /\ clients_built' = clients_built + r.built
         /\ last' = [op |-> "configure_langfuse_from_env", ret |-> r.ret,
                     client_before |-> LANGFUSE_CLIENT, built |-> r.built]
    /\ UNCHANGED <<files, embedder>>
    /\ UNCHANGED <<env, dotenv, langfuse_pkg, dspy_lm, lms_built, starter, agent>>

\* A direct call of log_langfuse_generation, as ObservabilityProvider.log_generation
\* and the tests make it
LogGenerationCall ==
    /\ \E ctorOk \in CtorChoices(langfuse_pkg, LANGFUSE_CLIENT, env) :
       \E failAt \in FailChoices(langfuse_pkg, LANGFUSE_CLIENT, env, ctorOk) :
       \E metadata \in {None, [foo |-> "bar"]} :
       \E r \in {log_langfuse_generation(
                      [pkg |-> langfuse_pkg, client |-> LANGFUSE_CLIENT, env |-> env,
                       clients_built |-> clients_built, lm |-> dspy_lm],
                      ctorOk, "test", "hello", [route |-> tech], metadata, failAt)} :
         /\ clients_built + r.built <= MaxClients
         /\ LANGFUSE_CLIENT' = r.client
         /\ clients_built' = clients_built + r.built
         /\ last' = [op |-> "log_langfuse_generation", client_before |-> LANGFUSE_CLIENT,
                     client_ret |-> r.client_ret, built |-> r.built, calls |-> r.calls,
                     raised |-> r.raised, observation |-> r.observation,
                     failAt |-> failAt]
    /\ UNCHANGED <<files, embedder>>
    /\ UNCHANGED <<env, dotenv, langfuse_pkg, dspy_lm, lms_built, starter, agent>>

NextLangfuse == SetEnvLangfuse \/ DelEnvLangfuse \/ ConfigureLangfuseCall \/ LogGenerationCall

SpecLangfuse == InitLangfuse /\ [][NextLangfuse]_vars

\* C8: at most one Langfuse client is ever constructed; a call made while a
\* client is cached returns that client and constructs nothing, whatever the
\* LANGFUSE_* variables are; a call made with no client and a missing key
\* returns None and leaves the cache empty.
LangfuseSingleton ==
    /\ clients_built <= 1
    /\ (last.op \in {"configure_langfuse_from_env", "log_langfuse_generation"}
        /\ last.client_before # None) =>
            /\ LANGFUSE_CLIENT = last.client_before
            /\ last.built = 0
            /\ last.op = "configure_langfuse_from_env" => last.ret = last.client_before
            /\ last.op = "log_langfuse_generation" => last.client_ret = last.client_before
    /\ (last.op = "configure_langfuse_from_env" /\ last.client_before = None
        /\ CredentialsMissing(env)) =>
            /\ last.ret = None
            /\ LANGFUSE_CLIENT = None
            /\ last.built = 0

\* The cached client is returned after the secret key was changed and the
\* public key deleted
LangfuseSingletonWitness ==
    /\ last.op = "configure_langfuse_from_env"
    /\ last.client_before # None
    /\ last.ret = LANGFUSE_CLIENT
    /\ LANGFUSE_CLIENT.secret_key = Sk1
    /\ LANGFUSE_PUBLIC_KEY \notin DOMAIN env
    /\ Truthy(env, LANGFUSE_SECRET_KEY) /\ env[LANGFUSE_SECRET_KEY] = Sk2

\* C9: log_langfuse_generation returns normally whichever tracing call
\* raises, and makes no tracing call when no client is available.
LogNeverRaises ==
    last.op = "log_langfuse_generation" =>
        /\ ~last.raised
        /\ last.client_ret = None => last.calls = <<>> /\ last.observation = None

\* A call in which client.flush() raised after the observation was ended
LogNeverRaisesWitness ==
    /\ last.op = "log_langfuse_generation"
    /\ last.client_ret # None
    /\ last.failAt = 4
    /\ last.calls = TracingCalls
    /\ ~last.raised

-----------------------------------------------------------------------------
(* agents/triage/agent.py: TriageAgent; agents/routing/agent.py:           *)
(* StarterAgent.  The two forward methods differ in the observation name   *)
(* only; line numbers are those of agents/triage/agent.py.                 *)

ALLOWED_ROUTES == {billing, tech, sales}

NoLmExplanation == "Policy fallback used because no LM is configured."
InvalidRouteExplanation == "Policy fallback applied because LM returned an unsupported route."

\* The `route` attribute of a prediction: a str, a value that is not a str
\* (None), or no attribute at all
StrRoute(chars) == [kind |-> "str", s |-> chars]
NoneRoute == [kind |-> "none", s |-> <<>>]
NoRouteAttr == [kind |-> "missing", s |-> <<>>]

\* What self.route(...) may do: raise, or return a prediction
Raises == [raises |-> TRUE, route |-> NoRouteAttr, rationale |-> "", explanation |-> ""]
Prediction(route, rationale, explanation) ==
    [raises |-> FALSE, route |-> route, rationale |-> rationale, explanation |-> explanation]

\* Lines 45-47 without the normalisation
raw_route_unnormalised(pred) ==
    IF pred.route.kind = "missing" THEN StrRoute(<<>>) ELSE pred.route

\* Lines 45-47: getattr(pred, "route", ""), stripped and lower-cased if a str
raw_route(pred) ==
    IF pred.route.kind = "missing" THEN StrRoute(<<>>)
    ELSE IF pred.route.kind = "str" THEN StrRoute(lower(strip(pred.route.s, Whitespace)))
    ELSE pred.route

\* Line 48: getattr(pred, "rationale", "") or getattr(pred, "explanation", "")
pred_explanation(pred) == IF pred.rationale # "" THEN pred.rationale ELSE pred.explanation

\* Line 51 dropped: every route of the LM is accepted
InvalidRoute_never(route) == FALSE

\* Line 51: `raw_route not in ALLOWED_ROUTES`
InvalidRoute(route) == ~(route.kind = "str" /\ route.s \in ALLOWED_ROUTES)

\* Line 63 passing the metadata dict unconditionally
Metadata_always(fallback_reason) == [fallback_reason |-> fallback_reason]

\* Line 63: {"fallback_reason": fallback_reason} if fallback_reason else None
Metadata(fallback_reason) ==
    IF fallback_reason # "" THEN [fallback_reason |-> fallback_reason] ELSE None

\* Line 36 dropped: the predictor is called whether or not an LM is visible
NoLmVisible_never(lm) == FALSE

\* Lines 32-36: `lm_obj is None` after both access patterns
NoLmVisible(lm) == lm = None

\* The whole of forward(request), for the observation name of the agent.
\* st is the process state the call starts in, cfg what the call of
\* configure_lm_from_env on line 29 did in that state, inp the outcomes of
\* the calls into the predictor and langfuse.
forward(name, st, cfg, inp, request) ==
    LET quiet == [env |-> cfg.env, lm |-> cfg.lm, lms_built |-> st.lms_built + cfg.built,
                  client |-> st.client, clients_built |-> st.clients_built,
                  logged |-> FALSE, metadata |-> None, calls |-> <<>>,
                  observation |-> None, log_raised |-> FALSE]
    IN
    IF NoLmVisible(cfg.lm)
    THEN quiet @@ [predictor_invoked |-> FALSE, raised |-> FALSE,
                   result |-> [route |-> neutral_policy(request),
                               explanation |-> NoLmExplanation]]
    ELSE IF inp.pred.raises
    THEN quiet @@ [predictor_invoked |-> TRUE, raised |-> TRUE, result |-> None]
    ELSE LET lmRoute == raw_route(inp.pred)
             invalid == InvalidRoute(lmRoute)
             route == IF invalid THEN neutral_policy(request) ELSE lmRoute.s
             fallback_reason == IF invalid THEN "invalid_route" ELSE ""
             explanation == IF invalid THEN InvalidRouteExplanation
                            ELSE pred_explanation(inp.pred)
             result == [route |-> route, explanation |-> explanation]
             log == log_langfuse_generation(
                        [pkg |-> st.pkg, client |-> st.client, env |-> cfg.env,
                         clients_built |-> st.clients_built, lm |-> cfg.lm],
                        inp.ctorOk, name, request, result, Metadata(fallback_reason),
                        inp.failAt)
         IN [env |-> cfg.env, lm |-> cfg.lm, lms_built |-> st.lms_built + cfg.built,
             client |-> log.client, clients_built |-> st.clients_built + log.built,
             logged |-> TRUE, metadata |-> Metadata(fallback_reason), calls |-> log.calls,
             observation |-> log.observation, log_raised |-> log.raised,
             predictor_invoked |-> TRUE, raised |-> log.raised,
             result |-> IF log.raised THEN None ELSE result]

\* The process state forward starts in
ProcessState ==
    [env |-> env, dotenv |-> dotenv, lm |-> dspy_lm, lms_built |-> lms_built,
     pkg |-> langfuse_pkg, client |-> LANGFUSE_CLIENT, clients_built |-> clients_built]

Requests == { <<>>, <<"R","E","F","U","N","D"," ","D","e","m","o">>,
              <<"T","r","i","a","l">> }

Predictions ==
    { Raises,
      Prediction(StrRoute(billing), "why", ""),
      Prediction(StrRoute(<<" ","T","e","c","h","\n">>), "", "alt"),
      Prediction(StrRoute(<<"e","s","c","a","l","a","t","e">>), "why", ""),
      Prediction(StrRoute(<<>>), "", ""),
      Prediction(NoneRoute, "why", ""),
      Prediction(NoRouteAttr, "why", "") }

\* Whether Path.cwd() can matter: with no .env file anywhere it cannot
CwdChoices == IF \E i \in 1..Len(dotenv) : dotenv[i] # Missing THEN BOOLEAN ELSE {TRUE}

\* The predictor is reached only when an LM is visible
PredChoices(lm) == IF NoLmVisible(lm) THEN {Raises} ELSE Predictions

AgentEnvs ==
    { << >>,
      (OPENAI_API_KEY :> Key1),
      (LANGFUSE_PUBLIC_KEY :> Pk1) @@ (LANGFUSE_SECRET_KEY :> Sk1),
      (OPENAI_API_KEY :> Key1) @@ (LANGFUSE_PUBLIC_KEY :> Pk1) @@ (LANGFUSE_SECRET_KEY :> Sk1) }

Init ==
    /\ FreshProcess
    /\ langfuse_pkg \in BOOLEAN
    /\ env \in AgentEnvs
    /\ dotenv \in LmDotenvs
    /\ last = [op |-> "init"]

\* A forward call: the outcomes of the library calls it makes are chosen as
\* far as the call reaches them, then its state changes and the record of what
\* it did follow.  (\E x \in {e} binds x to the value of e, computed once.)
ForwardStep(name, op) ==
    \E cwdOk \in CwdChoices :
    \E outcome \in OutcomesFor(env, dotenv, cwdOk, dspy_lm) :
      \E cfg \in {configure_lm_from_env(env, dotenv, cwdOk, dspy_lm, lms_built, outcome)} :
      \E logs \in {~NoLmVisible(cfg.lm)} :
      \E pred \in PredChoices(cfg.lm) :
      \E ctorOk \in IF logs /\ ~pred.raises
                     THEN CtorChoices(langfuse_pkg, LANGFUSE_CLIENT, cfg.env) ELSE {TRUE} :
      \E failAt \in IF logs /\ ~pred.raises
                     THEN FailChoices(langfuse_pkg, LANGFUSE_CLIENT, cfg.env, ctorOk)
                     ELSE {0} :
      \E request \in Requests :
      \E r \in {forward(name, ProcessState, cfg,
                         [pred |-> pred, ctorOk |-> ctorOk, failAt |-> failAt], request)} :
        /\ r.lms_built <= MaxLms
        /\ r.clients_built <= MaxClients
        /\ env' = r.env
        /\ dspy_lm' = r.lm
        /\ lms_built' = r.lms_built
        /\ LANGFUSE_CLIENT' = r.client
        /\ clients_built' = r.clients_built
        /\ last' = [op |-> op, request |-> request, pred |-> pred,
                    backend_ok |-> (ctorOk /\ failAt = 0),
                    predictor_invoked |-> r.predictor_invoked, raised |-> r.raised,
                    result |-> r.result, logged |-> r.logged, metadata |-> r.metadata,
                    calls |-> r.calls, observation |-> r.observation]

\* StarterAgent(): agents/routing/agent.py lines 27-31
StarterAgentInit ==
    /\ ~starter
    /\ \E cwdOk \in CwdChoices :
       \E outcome \in OutcomesFor(env, dotenv, cwdOk, dspy_lm) :
         LET r == configure_lm_from_env(env, dotenv, cwdOk, dspy_lm, lms_built, outcome) IN
         /\ lms_built + r.built <= MaxLms
         /\ env' = r.env
         /\ dspy_lm' = r.lm
         /\ lms_built' = lms_built + r.built
         /\ last' = [op |-> "StarterAgent", ret |-> r.ret]
    /\ starter' = TRUE
    /\ UNCHANGED <<files, embedder>>
    /\ UNCHANGED <<dotenv, langfuse_pkg, LANGFUSE_CLIENT, clients_built, agent>>

\* StarterAgent.forward(request): agents/routing/agent.py lines 33-71
StarterForward ==
    /\ starter
    /\ ForwardStep("routing-agent", "forward")
    /\ UNCHANGED <<files, embedder>>
    /\ UNCHANGED <<dotenv, langfuse_pkg, starter, agent>>

Next == StarterAgentInit \/ StarterForward

Spec == Init /\ [][Next]_vars

\* C1: every dict that forward returns has a route that is one of billing,
\* tech, sales, with or without an LM and whatever the LM predicted.
RouteAlwaysAllowed ==
    (last.op = "forward" /\ ~last.raised) => last.result.route \in ALLOWED_ROUTES

\* The LM answered "escalate" and the agent returned an allowed route
RouteAlwaysAllowedWitness ==
    /\ last.op = "forward"
    /\ dspy_lm # None
    /\ last.pred = Prediction(StrRoute(<<"e","s","c","a","l","a","t","e">>), "why", "")
    /\ last.request = <<"T","r","i","a","l">>
    /\ ~last.raised
    /\ last.result.route = sales

\* C2: when no LM is visible after configure_lm_from_env has run inside
\* forward, the result is the policy's route with the no-LM explanation and
\* the predictor is not invoked.
NoLmUsesPolicy ==
    (last.op = "forward" /\ dspy_lm = None) =>
        /\ ~last.raised
        /\ last.result = [route |-> neutral_policy(last.request),
                          explanation |-> NoLmExplanation]
        /\ ~last.predictor_invoked

\* A key is set, an LM was built inside forward but is not visible afterwards
NoLmUsesPolicyWitness ==
    /\ last.op = "forward"
    /\ dspy_lm = None
    /\ lms_built > 0
    /\ last.request = <<"R","E","F","U","N","D"," ","D","e","m","o">>
    /\ last.result.route = billing

\* C3: with an LM configured, forward replaces the LM's route by the policy's
\* and gives the fallback explanation exactly when the stripped, lower-cased
\* route is not an allowed one; the metadata it hands to the observation is
\* fallback_reason = invalid_route in that case and None otherwise.
LmRouteOk(pred) ==
    /\ pred.route.kind = "str"
    /\ \E r \in ALLOWED_ROUTES : lower(strip(pred.route.s, Whitespace)) = r

FallbackExactlyOnInvalidRoute ==
    (last.op = "forward" /\ dspy_lm # None /\ ~last.raised) =>
        /\ last.logged
        /\ last.observation # None => last.observation.metadata = last.metadata
        /\ IF LmRouteOk(last.pred)
           THEN /\ last.result.route = lower(strip(last.pred.route.s, Whitespace))
                /\ last.result.explanation = pred_explanation(last.pred)
                /\ last.metadata = None
           ELSE /\ last.result.route = neutral_policy(last.request)
                /\ last.result.explanation = InvalidRouteExplanation
                /\ last.metadata = [fallback_reason |-> "invalid_route"]

\* The LM answered " Tech\n": accepted as tech, observation without metadata
FallbackExactlyOnInvalidRouteWitness ==
    /\ last.op = "forward"
    /\ dspy_lm # None
    /\ last.pred = Prediction(StrRoute(<<" ","T","e","c","h","\n">>), "", "alt")
    /\ last.request = <<"R","E","F","U","N","D"," ","D","e","m","o">>
    /\ last.result = [route |-> tech, explanation |-> "alt"]
    /\ last.observation # None
    /\ last.observation.metadata = None

-----------------------------------------------------------------------------
(* examples/fastapi_server.py                                              *)

TriageAgentObject == [class |-> "TriageAgent"]

\* lifespan(): lines 24-31, up to the yield.  TriageAgent() runs
\* configure_lm_from_env (agents/triage/agent.py lines 22-26).
Lifespan ==
    /\ agent = None
    /\ \E cwdOk \in CwdChoices :
       \E outcome \in OutcomesFor(env, dotenv, cwdOk, dspy_lm) :
       \E r \in {configure_lm_from_env(env, dotenv, cwdOk, dspy_lm, lms_built, outcome)} :
         /\ lms_built + r.built <= MaxLms
         /\ env' = r.env
         /\ dspy_lm' = r.lm
         /\ lms_built' = lms_built + r.built
         /\ last' = [op |-> "lifespan", ret |-> r.ret]
    /\ agent' = TriageAgentObject
    /\ UNCHANGED <<files, embedder>>
    /\ UNCHANGED <<dotenv, langfuse_pkg, LANGFUSE_CLIENT, clients_built, starter>>

\* Line 74: if agent is None
NotInitialized_never(a) == FALSE

NotInitialized(a) == a = None

\* POST /triage: lines 61-78.  A raised exception is answered with status 500.
Triage ==
    \/ /\ NotInitialized(agent)
       /\ last' = [op |-> "triage", raised |-> TRUE, error |-> "Agent not initialized",
                   status |-> 500, predictor_invoked |-> FALSE, logged |-> FALSE]
       /\ UNCHANGED <<files, embedder>>
       /\ UNCHANGED <<env, dotenv, langfuse_pkg, dspy_lm, LANGFUSE_CLIENT, lms_built,
                      clients_built, starter, agent>>
    \/ /\ ~NotInitialized(agent)
       /\ ForwardStep("triage-agent", "triage")
       /\ UNCHANGED <<files, embedder>>
       /\ UNCHANGED <<dotenv, langfuse_pkg, starter, agent>>

\* GET /health: lines 81-87
Health ==
    /\ last' = [op |-> "health", agent_ready |-> (agent # None),
                service |-> "observable-agent-starter"]
    /\ UNCHANGED <<files, embedder>>
    /\ UNCHANGED <<env, dotenv, langfuse_pkg, dspy_lm, LANGFUSE_CLIENT, lms_built,
                   clients_built, starter, agent>>

\* GET /: lines 51-58
Root ==
    /\ last' = [op |-> "root", service |-> "observable-agent-starter", status |-> "ok",
                version |-> "0.1.0"]
    /\ UNCHANGED <<files, embedder>>
    /\ UNCHANGED <<env, dotenv, langfuse_pkg, dspy_lm, LANGFUSE_CLIENT, lms_built,
                   clients_built, starter, agent>>

NextServer == Lifespan \/ Triage \/ Health \/ Root

SpecServer == Init /\ [][NextServer]_vars

\* C4: every POST /triage that is answered successfully while the Langfuse
\* package and both credentials are present, and while the Langfuse backend
\* raises nothing, has emitted a generation observation - whichever path the
\* agent took.
EveryTriageTraced ==
    (/\ last.op = "triage"
     /\ ~last.raised
     /\ langfuse_pkg
     /\ ~CredentialsMissing(env)
     /\ last.backend_ok) =>
        last.observation # None

-----------------------------------------------------------------------------
(* examples/coding_agent/src/adl_agent/agent.py: the patch guardrails      *)

\* Python s.split(c) for a one-character separator: always at least one piece
RECURSIVE split(_, _)
split(s, c) ==
    IF \E i \in 1..Len(s) : s[i] = c
    THEN LET i == CHOOSE i \in 1..Len(s) : s[i] = c /\ \A j \in 1..(i - 1) : s[j] # c
         IN <<SubSeq(s, 1, i - 1)>> \o split(SubSeq(s, i + 1, Len(s)), c)
    ELSE <<s>>

\* Python c.join(pieces)
RECURSIVE join(_, _)
join(c, pieces) ==
    IF pieces = <<>> THEN <<>>
    ELSE IF Len(pieces) = 1 THEN pieces[1]
    ELSE pieces[1] \o <<c>> \o join(c, Tail(pieces))

\* fnmatch.fnmatch on POSIX for patterns made of literals, "*" and "?": the
\* pattern must match the whole name, and "*" also matches "/"
RECURSIVE fnmatch(_, _)
fnmatch(name, pat) ==
    IF pat = <<>> THEN name = <<>>
    ELSE IF Head(pat) = "*"
         THEN \E k \in 0..Len(name) : fnmatch(SubSeq(name, k + 1, Len(name)), Tail(pat))
    ELSE IF name = <<>> THEN FALSE
    ELSE (Head(pat) = "?" \/ Head(pat) = Head(name)) /\ fnmatch(Tail(name), Tail(pat))

\* PurePosixPath(s).parts: the components of s, "" and "." dropped, the root
\* "/" kept as a first part
path_parts(s) ==
    LET pieces == split(s, "/")
        kept == SelectSeq(pieces, LAMBDA c : c # <<>> /\ c # <<".">>)
    IN IF s # <<>> /\ s[1] = "/" THEN << <<"/">> >> \o kept ELSE kept

\* PurePath.match(pattern): the pattern's parts are matched from the right,
\* part by part; a rooted pattern must account for every part.  An empty
\* pattern raises ValueError("empty pattern").
Path_match(file_path, pattern) ==
    LET parts == path_parts(file_path)
        pat_parts == path_parts(pattern)
        n == Len(parts)
        m == Len(pat_parts)
    IN /\ IF pattern[1] = "/" THEN m = n ELSE m <= n
       /\ \A i \in 1..m : fnmatch(parts[n - m + i], pat_parts[i])

\* Line 34: line.split("/", 1)[1] if "/" in line else ""
AfterFirstSlash(line) ==
    IF \E i \in 1..Len(line) : line[i] = "/"
    THEN LET i == CHOOSE i \in 1..Len(line) :
                      line[i] = "/" /\ \A j \in 1..(i - 1) : line[j] # "/"
         IN SubSeq(line, i + 1, Len(line))
    ELSE <<>>

\* Lines 28-37: the set of paths named by the "--- a/" and "+++ b/" headers
extract_files_from_patch(patch) ==
    LET lines == split(patch, "\n")
        Header1 == <<"-","-","-"," ","a","/">>
        Header2 == <<"+","+","+"," ","b","/">>
        DevNull == <<"/","d","e","v","/","n","u","l","l">>
    IN
    { AfterFirstSlash(lines[i]) :
        i \in { j \in 1..Len(lines) :
                  /\ startswith(lines[j], Header1) \/ startswith(lines[j], Header2)
                  /\ AfterFirstSlash(lines[j]) # <<>>
                  /\ AfterFirstSlash(lines[j]) # DevNull } }

\* Lines 48-51: any(fnmatch(file, p) or Path(file).match(p) for p in patterns),
\* evaluated left to right: "True", "False", or "ValueError" when Path.match
\* is reached with an empty pattern before any pattern matched
RECURSIVE AnyPatternMatches(_, _)
AnyPatternMatches(file_path, patterns) ==
    IF patterns = <<>> THEN "False"
    ELSE IF fnmatch(file_path, Head(patterns)) THEN "True"
    ELSE IF path_parts(Head(patterns)) = <<>> THEN "ValueError"
    ELSE IF Path_match(file_path, Head(patterns)) THEN "True"
    ELSE AnyPatternMatches(file_path, Tail(patterns))

\* Lines 40-54 rejecting a patch that names no file
validate_patch_files_some_file(allowed_patterns, patch_files) ==
    LET verdicts == { AnyPatternMatches(f, allowed_patterns) : f \in patch_files } IN
    IF patch_files = {} THEN {"False"}
    ELSE IF verdicts \subseteq {"True"} THEN {"True"}
    ELSE verdicts \ {"True"}

\* Lines 40-54.  The files are visited in the list's order, which list(set())
\* leaves unspecified: when some file is unmatched and another reaches an
\* empty pattern, either can be met first.
validate_patch_files(allowed_patterns, patch_files) ==
    LET verdicts == { AnyPatternMatches(f, allowed_patterns) : f \in patch_files } IN
    IF verdicts \subseteq {"True"} THEN {"True"}
    ELSE verdicts \ {"True"}

RiskLevels == { <<"l","o","w">>, <<"m","e","d","i","u","m">>, <<"h","i","g","h">> }

\* Line 90
RiskValid(risk_level) == lower(risk_level) \in RiskLevels

\* Line 93 without .strip(): a patch of whitespace passes
PatchValid_unstripped(patch) == Len(patch) > 0

\* Line 93
PatchValid(patch) == Len(strip(patch, Whitespace)) > 0

\* self.generate(...) raised instead of returning a prediction
GenerateRaises == [raises |-> TRUE, patch |-> <<>>, risk_level |-> <<>>]
CodePatch(patch, risk_level) == [raises |-> FALSE, patch |-> patch, risk_level |-> risk_level]

\* Lines 70-118 up to the logging call: what forward does with the LM's result
\* when validate_patch_files ended with `verdict`.  error is the exception
\* leaving forward ("" when it goes on to log and return).
CodeAgent_guardrails(result, verdict) ==
    IF result.raises THEN [error |-> "Exception", message |-> "generate"]
    ELSE IF verdict = "ValueError" THEN [error |-> "ValueError", message |-> "empty pattern"]
    ELSE IF verdict = "False"
         THEN [error |-> "ValueError", message |-> "Patch modifies disallowed files"]
    ELSE IF ~RiskValid(result.risk_level)
         THEN [error |-> "ValueError", message |-> "Risk level must be low/medium/high"]
    ELSE IF ~PatchValid(result.patch)
         THEN [error |-> "ValueError", message |-> "Patch cannot be empty"]
    ELSE [error |-> "", message |-> ""]

\* modifies src/x.py
PatchSrc ==
    <<"-","-","-"," ","a","/","s","r","c","/","x",".","p","y","\n","+","+","+"," ","b","/","s","r","c","/","x",".","p","y","\n","+","x">>
\* names src/x.py and R.md
PatchDoc ==
    <<"-","-","-"," ","a","/","s","r","c","/","x",".","p","y","\n","+","+","+"," ","b","/","R",".","m","d","\n","+","x">>
\* creates x.py
PatchNew ==
    <<"-","-","-"," ","/","d","e","v","/","n","u","l","l","\n","+","+","+"," ","b","/","x",".","p","y","\n","+","x">>
\* an `a/` header naming /dev/null
PatchDel ==
    <<"-","-","-"," ","a","/","/","d","e","v","/","n","u","l","l","\n","+","+","+"," ","b","/","s","r","c","/","x",".","p","y">>
\* names v/src/x.py
PatchNested ==
    <<"+","+","+"," ","b","/","v","/","s","r","c","/","x",".","p","y","\n","+","x">>
\* names no file
PatchNoHeader ==
    <<"+","x">>
\* headers without the a/ and b/ prefixes, as `git diff --no-prefix` writes them
PatchNoPrefix ==
    <<"-","-","-"," ","R",".","m","d","\n","+","+","+"," ","R",".","m","d","\n","+","x">>
\* a header without a path
PatchBareHeader ==
    <<"+","+","+"," ","b","/">>
\* whitespace only
PatchBlank ==
    <<" ","\n">>

Patches == {PatchSrc, PatchDoc, PatchNew, PatchDel, PatchNested, PatchNoHeader, PatchNoPrefix,
            PatchBareHeader, PatchBlank, <<>>}

LmRiskLevels == { <<"l","o","w">>, <<"H","I","G","H">>, <<"M","e","d","i","u","m">>, <<"c","r","i","t">>, <<" ","l","o","w">>, <<>> }

AllowedPatternLists ==
    { << <<"s","r","c","/","*",".","p","y">> >>,
      << <<"*",".","m","d">>, <<"s","r","c","/","*",".","p","y">> >>,
      << <<"s","r","c","/","*","*","/","*",".","p","y">> >>,
      << <<>>, <<"*",".","p","y">> >>,
      << >> }

\* What self.generate returns (or that it raises)
LmResults == {GenerateRaises} \cup { CodePatch(p, r) : p \in Patches, r \in LmRiskLevels }

LangfuseCredentials == (LANGFUSE_PUBLIC_KEY :> Pk1) @@ (LANGFUSE_SECRET_KEY :> Sk1)

InitCodeAgent ==
    /\ FreshProcess
    /\ env \in {<< >>, LangfuseCredentials}
    /\ dotenv = [i \in 1..NumCandidates |-> Missing]
    /\ langfuse_pkg = TRUE
    /\ \E result \in LmResults : \E allowed_patterns \in AllowedPatternLists :
         last = [op |-> "input", result |-> result, allowed_patterns |-> allowed_patterns]

\* CodeAgent.forward (lines 69-118), with the result self.generate produced:
\* the guardrails, then BaseAgent.log_generation, then `return result`
CodeAgentForward ==
    /\ last.op = "input"
    /\ \E verdict \in validate_patch_files(last.allowed_patterns,
                                           extract_files_from_patch(last.result.patch)) :
       \E g \in {CodeAgent_guardrails(last.result, verdict)} :
         IF g.error # ""
         THEN /\ last' = [op |-> "CodeAgent.forward", result |-> last.result,
                          allowed_patterns |-> last.allowed_patterns,
                          raised |-> g.error, message |-> g.message,
                          returned |-> FALSE, ret |-> None, tracing |-> <<>>]
              /\ UNCHANGED <<LANGFUSE_CLIENT, clients_built>>
         ELSE \E ctorOk \in CtorChoices(langfuse_pkg, LANGFUSE_CLIENT, env) :
              \E failAt \in FailChoices(langfuse_pkg, LANGFUSE_CLIENT, env, ctorOk) :
              \E r \in {log_langfuse_generation(
                             [pkg |-> langfuse_pkg, client |-> LANGFUSE_CLIENT, env |-> env,
                              clients_built |-> clients_built, lm |-> dspy_lm],
                             ctorOk, "code-agent-generate", "task",
                             [patch_length |-> Len(last.result.patch),
                              risk_level |-> last.result.risk_level],
                             None, failAt)} :
                /\ LANGFUSE_CLIENT' = r.client
                /\ clients_built' = clients_built + r.built
                /\ last' = [op |-> "CodeAgent.forward", result |-> last.result,
                            allowed_patterns |-> last.allowed_patterns,
                            raised |-> IF r.raised THEN "Exception" ELSE "",
                            message |-> "",
                            returned |-> ~r.raised,
                            ret |-> IF r.raised THEN None ELSE last.result,
                            tracing |-> r.calls]
    /\ UNCHANGED <<env, dotenv, langfuse_pkg, dspy_lm, lms_built, starter, agent, files, embedder>>

NextCodeAgent == CodeAgentForward

SpecCodeAgent == InitCodeAgent /\ [][NextCodeAgent]_vars

\* The three guardrails as properties of an LM result
SomePatternMatches(file_path, patterns) ==
    \E i \in 1..Len(patterns) :
        \/ fnmatch(file_path, patterns[i])
        \/ path_parts(patterns[i]) # <<>> /\ Path_match(file_path, patterns[i])

GuardrailsHold(result, patterns) ==
    /\ \A f \in extract_files_from_patch(result.patch) : SomePatternMatches(f, patterns)
    /\ \E level \in RiskLevels : lower(result.risk_level) = level
    /\ \E i \in 1..Len(result.patch) : result.patch[i] \notin Whitespace

\* C11: CodeAgent.forward returns the LM's result only if every file the patch
\* names matches an allowed pattern, the risk level is low, medium or high in
\* any letter case, and the patch is not blank; when the LM answered and a
\* guardrail fails, forward raises ValueError, returns nothing and logs nothing.
GuardrailsGateResult ==
    last.op = "CodeAgent.forward" =>
        /\ last.returned =>
              /\ GuardrailsHold(last.result, last.allowed_patterns)
              /\ last.ret = last.result
        /\ (~last.result.raises /\ ~GuardrailsHold(last.result, last.allowed_patterns)) =>
              /\ last.raised = "ValueError"
              /\ ~last.returned
              /\ last.ret = None
              /\ last.tracing = <<>>

\* An upper-case risk level and an allowed file: the result is returned
GuardrailsGateResultWitness ==
    /\ last.op = "CodeAgent.forward"
    /\ last.result = CodePatch(PatchSrc, <<"H","I","G","H">>)
    /\ last.returned
    /\ last.ret = last.result

\* No line of the patch starts with "--- a/" or "+++ b/"
NoHeaderLine(patch) ==
    LET lines == split(patch, "\n") IN
    \A i \in 1..Len(lines) :
        /\ ~startswith(lines[i], <<"-","-","-"," ","a","/">>)
        /\ ~startswith(lines[i], <<"+","+","+"," ","b","/">>)

\* C29: for a patch that is not blank and has no line starting with "--- a/"
\* or "+++ b/", extract_files_from_patch gives no file, validate_patch_files
\* returns True whatever the allowed patterns are (the empty list and a list
\* holding an empty pattern included), and forward raises no ValueError when
\* the risk level is low, medium or high: the file restriction checks nothing.
FileGuardrailVacuousWithoutHeaders ==
    (/\ last.op = "CodeAgent.forward"
     /\ ~last.result.raises
     /\ Len(last.result.patch) > 0
     /\ \E i \in 1..Len(last.result.patch) : last.result.patch[i] \notin Whitespace
     /\ NoHeaderLine(last.result.patch)) =>
        /\ extract_files_from_patch(last.result.patch) = {}
        /\ \A patterns \in AllowedPatternLists :
              validate_patch_files(patterns, extract_files_from_patch(last.result.patch)) = {"True"}
        /\ last.message # "Patch modifies disallowed files"
        /\ last.message # "empty pattern"
        /\ (\E level \in RiskLevels : lower(last.result.risk_level) = level) =>
              /\ last.raised # "ValueError"
              /\ last.returned => last.ret = last.result
              /\ ~last.returned => (last.raised = "Exception" /\ last.tracing # <<>>)
        /\ ~(\E level \in RiskLevels : lower(last.result.risk_level) = level) =>
              last.raised = "ValueError" /\ last.message = "Risk level must be low/medium/high"

\* A patch written without prefixes that changes R.md is returned although
\* no file is allowed
FileGuardrailVacuousWithoutHeadersWitness ==
    /\ last.op = "CodeAgent.forward"
    /\ last.result = CodePatch(PatchNoPrefix, <<"l","o","w">>)
    /\ last.allowed_patterns = << >>
    /\ last.returned
    /\ last.ret = last.result

-----------------------------------------------------------------------------
(* examples/coding_agent/src/adl_agent/harness.py                          *)
(*                                                                         *)
(* File names, commands and message texts are opaque strings; file         *)
(* contents are character sequences.  A message is the tuple of the parts  *)
(* its f-string is made of.                                                *)

\* subprocess.run: the command exited with a return code, or could not be
\* started at all (OSError, e.g. the executable is not installed)
Exited(returncode) == [raises |-> FALSE, returncode |-> returncode]
LaunchFails == [raises |-> TRUE, returncode |-> 0]


\* The commands the harness runs (lines 18-20 and 60-61)
HarnessCmd ==
    [ls_files |-> "git ls-files", diff |-> "git diff", status |-> "git status --short",
     ruff |-> "ruff check .", pytest |-> "python -m pytest -q"]

\* Lines 14-50: the git commands repo_snapshot runs and the text it returns.
\* ls_files is the outcome of `git ls-files`, run with check=True; every
\* exception ends in the "Error capturing repo state" text.
repo_snapshot(ls_files) ==
    IF ls_files.raises \/ ls_files.returncode # 0
    THEN [commands |-> <<HarnessCmd.ls_files>>, ret |-> "Error capturing repo state"]
    ELSE [commands |-> <<HarnessCmd.ls_files, HarnessCmd.diff, HarnessCmd.status>>, ret |-> "=== GIT FILES ==="]

\* Lines 59-62 with the two checks swapped
checks_pytest_first ==
    << [cmd |-> HarnessCmd.pytest, name |-> "Tests"],
       [cmd |-> HarnessCmd.ruff, name |-> "Ruff linting"] >>

\* Lines 59-62
checks ==
    << [cmd |-> HarnessCmd.ruff, name |-> "Ruff linting"],
       [cmd |-> HarnessCmd.pytest, name |-> "Tests"] >>

\* Line 67 with the accumulator dropped: all_passed = passed
AllPassed_last_only(all_passed, passed) == passed

\* Line 67
AllPassed(all_passed, passed) == all_passed /\ passed

\* Lines 64-74: the loop from check i on.  outcomes[i] is what subprocess.run
\* does for check i; acc carries all_passed, the commands run and the results.
RECURSIVE RunChecks(_, _, _)
RunChecks(i, outcomes, acc) ==
    IF i > Len(checks) THEN acc
    ELSE IF outcomes[i].raises
         THEN [acc EXCEPT !.raised = TRUE, !.commands = @ \o <<checks[i].cmd>>]
    ELSE LET passed == outcomes[i].returncode = 0 IN
         RunChecks(i + 1, outcomes,
                   [acc EXCEPT !.all_passed = AllPassed(@, passed),
                               !.commands = @ \o <<checks[i].cmd>>,
                               !.results = @ \o <<[name |-> checks[i].name,
                                                   passed |-> passed]>>])

\* Lines 53-81.  output is the list of entries the "\n\n".join is made of,
\* each with its mark (a check mark or a cross in the source).
format_lint_and_test(outcomes) ==
    LET r == RunChecks(1, outcomes, [raised |-> FALSE, all_passed |-> TRUE,
                                     commands |-> <<>>, results |-> <<>>])
    IN [raised |-> r.raised, all_passed |-> r.all_passed, commands |-> r.commands,
        output |-> IF r.raised THEN <<>>
                   ELSE [k \in 1..Len(r.results) |->
                           [mark |-> IF r.results[k].passed THEN "[pass]" ELSE "[fail]",
                            name |-> r.results[k].name]]]

\* The grave accent character (U+0060), written "~" here
Backtick == "~"

\* Lines 84-98 stripping only a complete pair of fences
strip_markdown_fences_pair_only(content) ==
    LET lines == split(content, "\n")
        rest == Tail(lines)
        Fence == <<Backtick, Backtick, Backtick>>
    IN IF /\ startswith(strip(lines[1], Whitespace), Fence)
          /\ rest # <<>> /\ strip(rest[Len(rest)], Whitespace) = Fence
       THEN join("\n", SubSeq(rest, 1, Len(rest) - 1))
       ELSE join("\n", lines)

\* Lines 84-98
strip_markdown_fences(content) ==
    LET lines == split(content, "\n")
        rest == Tail(lines)
        Fence == <<Backtick, Backtick, Backtick>>
    IN IF startswith(strip(lines[1], Whitespace), Fence)
       THEN IF rest # <<>> /\ strip(rest[Len(rest)], Whitespace) = Fence
            THEN join("\n", SubSeq(rest, 1, Len(rest) - 1))
            ELSE join("\n", rest)
       ELSE join("\n", lines)

\* What the file system does when write_new_file reaches it
IoOutcomes == {"ok", "mkdir_raises", "open_raises", "write_raises"}

\* Line 108 always false: the existence check is skipped
AlreadyExists_never(fs, filename) == FALSE

\* Line 108: file_path.exists()
AlreadyExists(fs, filename) == filename \in DOMAIN fs

\* Lines 101-122 reporting success without creating the file
write_new_file_nothing(fs, filename, content, io) ==
    IF AlreadyExists(fs, filename)
    THEN [files |-> fs, ok |-> FALSE, msg |-> <<"File ", filename, " already exists">>]
    ELSE IF io \in {"mkdir_raises", "open_raises", "write_raises"}
         THEN [files |-> fs, ok |-> FALSE, msg |-> <<"Failed to write file: ", io>>]
    ELSE [files |-> fs, ok |-> TRUE, msg |-> <<"Created ", filename>>]

\* Lines 101-122.  fs is the working tree before the call; the result carries
\* the working tree after it and the (success, message) pair.  "write_raises":
\* write_text opened (created and truncated) the file and failed while writing.
write_new_file(fs, filename, content, io) ==
    IF AlreadyExists(fs, filename)
    THEN [files |-> fs, ok |-> FALSE, msg |-> <<"File ", filename, " already exists">>]
    ELSE IF io \in {"mkdir_raises", "open_raises"}
         THEN [files |-> fs, ok |-> FALSE, msg |-> <<"Failed to write file: ", io>>]
    ELSE IF io = "write_raises"
         THEN [files |-> (filename :> <<>>) @@ fs, ok |-> FALSE,
               msg |-> <<"Failed to write file: ", io>>]
    ELSE [files |-> (filename :> strip_markdown_fences(content)) @@ fs, ok |-> TRUE,
          msg |-> <<"Created ", filename>>]

\* What the call agent(task=..., repo_state=..., allowed_patterns=...) does:
\* it raises, or it returns an object that may lack one of the four attributes
AgentRaises(error) == [raises |-> TRUE, error |-> error, missing |-> "",
                       filename |-> "", content |-> <<>>]
AgentResult(filename, content, missing) ==
    [raises |-> FALSE, error |-> "", missing |-> missing,
     filename |-> filename, content |-> content]

\* Lines 143-152: an exception is raised inside the try block
AgentFailed(outcome) == outcome.raises \/ outcome.missing # ""

\* Line 153 as `except ValueError`: an AttributeError or any other exception
\* leaves make_patch_and_test
AgentErrorCaught_value_error_only(outcome) == outcome.raises /\ outcome.error = "ValueError"

\* Line 153: `except Exception` catches every exception of the try block
AgentErrorCaught(outcome) == TRUE

\* Line 157 with dry_run ignored
DryRun_ignored(dry_run) == FALSE

\* Line 157
DryRun(dry_run) == dry_run

\* Line 162 with the result of write_new_file ignored
NotWritten_ignored(written) == FALSE

\* Line 162
NotWritten(written) == ~written

\* Lines 125-178.  fs: the working tree; outcome: what the agent call does;
\* world: what the environment does when reached (ls_files, io, lint).
\* steps lists the harness steps in the order they were started.
make_patch_and_test(fs, outcome, dry_run, world) ==
    LET snap == repo_snapshot(world.ls_files)
        w == write_new_file(fs, outcome.filename, outcome.content, world.io)
        t == format_lint_and_test(world.lint)
    IN
    IF AgentFailed(outcome)
    THEN [files |-> fs, raised |-> ~AgentErrorCaught(outcome),
          ret |-> IF AgentErrorCaught(outcome)
                  THEN [content |-> <<>>, tests_passed |-> FALSE,
                        output |-> <<"Agent failed to generate file: ",
                                     IF outcome.raises THEN outcome.error
                                     ELSE "AttributeError">>]
                  ELSE None,
          steps |-> <<"repo_snapshot", "agent">>, commands |-> snap.commands]
    ELSE IF DryRun(dry_run)
    THEN [files |-> fs, raised |-> FALSE,
          ret |-> [content |-> outcome.content, tests_passed |-> FALSE,
                   output |-> <<"DRY RUN - File generated but not written.",
                                outcome.filename>>],
          steps |-> <<"repo_snapshot", "agent">>, commands |-> snap.commands]
    ELSE IF NotWritten(w.ok)
    THEN [files |-> w.files, raised |-> FALSE,
          ret |-> [content |-> outcome.content, tests_passed |-> FALSE,
                   output |-> <<"Failed to write file:\n", w.msg>>],
          steps |-> <<"repo_snapshot", "agent", "write_new_file">>,
          commands |-> snap.commands]
    ELSE [files |-> w.files, raised |-> t.raised,
          ret |-> IF t.raised THEN None
                  ELSE [content |-> outcome.content, tests_passed |-> t.all_passed,
                        output |-> <<"=== FILE CREATED ===", outcome.filename, t.output>>],
          steps |-> <<"repo_snapshot", "agent", "write_new_file", "format_lint_and_test">>,
          commands |-> snap.commands \o t.commands]

Filenames == {"utils.py", "src/helpers.py"}

ContentPlain == <<"x","=","1">>
ContentFenced == <<Backtick,Backtick,Backtick,"p","y","\n","x","=","1","\n",Backtick,Backtick,Backtick>>
ContentOpenFence == <<Backtick,Backtick,Backtick,"\n","x","=","1">>
Contents == {ContentPlain, ContentFenced, ContentOpenFence, <<>>}

AgentOutcomes ==
    {AgentRaises("ValueError"), AgentRaises("RuntimeError")}
        \cup { AgentResult(f, c, "") : f \in Filenames, c \in Contents }
        \cup { AgentResult("utils.py", ContentPlain, m) :
                 m \in {"filename", "content", "explanation", "risk_level"} }

\* What subprocess.run does for the two checks; the second is not reached
\* when the first cannot be started
LintOutcomes ==
    { <<a, b>> : a \in {Exited(0), Exited(1)}, b \in {Exited(0), Exited(1), LaunchFails} }
        \cup { <<LaunchFails, Exited(0)>> }

\* The file system outcomes that matter for a write of filename
IoChoices(fs, filename) == IF AlreadyExists(fs, filename) THEN {"ok"} ELSE IoOutcomes

\* What the environment does for one make_patch_and_test call, restricted to
\* the parts the call reaches
Worlds(fs, outcome, dry_run) ==
    { [ls_files |-> l, io |-> io, lint |-> t] :
        l \in {Exited(0), Exited(128)},
        io \in IF AgentFailed(outcome) \/ dry_run THEN {"ok"}
               ELSE IoChoices(fs, outcome.filename),
        t \in IF AgentFailed(outcome) \/ dry_run \/ AlreadyExists(fs, outcome.filename)
              THEN {<<Exited(0), Exited(0)>>} ELSE LintOutcomes }

InitHarness ==
    /\ FreshProcess
    /\ env = << >>
    /\ dotenv = << >>
    /\ langfuse_pkg = TRUE
    /\ last = [op |-> "init"]

\* A direct call write_new_file(repo_path, filename, content)
WriteNewFileCall ==
    /\ \E filename \in Filenames : \E content \in Contents :
       \E io \in IoChoices(files, filename) :
       \E w \in {write_new_file(files, filename, content, io)} :
         /\ files' = w.files
         /\ UNCHANGED embedder
         /\ last' = [op |-> "write_new_file", filename |-> filename, content |-> content,
                     io |-> io, before |-> files, ok |-> w.ok, msg |-> w.msg]
    /\ UNCHANGED <<env, dotenv, langfuse_pkg, dspy_lm, LANGFUSE_CLIENT, lms_built,
                   clients_built, starter, agent>>

\* A direct call format_lint_and_test(repo_path)
FormatLintAndTestCall ==
    /\ \E outcomes \in LintOutcomes :
       \E t \in {format_lint_and_test(outcomes)} :
         last' = [op |-> "format_lint_and_test", outcomes |-> outcomes,
                  raised |-> t.raised, all_passed |-> t.all_passed,
                  commands |-> t.commands, output |-> t.output]
    /\ UNCHANGED <<env, dotenv, langfuse_pkg, dspy_lm, LANGFUSE_CLIENT, lms_built,
                   clients_built, starter, agent, files, embedder>>

\* A call make_patch_and_test(task, repo_path, allow_globs, agent, dry_run)
MakePatchAndTestCall ==
    /\ \E outcome \in AgentOutcomes : \E dry_run \in BOOLEAN :
       \E world \in Worlds(files, outcome, dry_run) :
       \E r \in {make_patch_and_test(files, outcome, dry_run, world)} :
         /\ files' = r.files
         /\ UNCHANGED embedder
         /\ last' = [op |-> "make_patch_and_test", outcome |-> outcome,
                     dry_run |-> dry_run, world |-> world, before |-> files,
                     raised |-> r.raised, ret |-> r.ret, steps |-> r.steps,
                     commands |-> r.commands]
    /\ UNCHANGED <<env, dotenv, langfuse_pkg, dspy_lm, LANGFUSE_CLIENT, lms_built,
                   clients_built, starter, agent>>

NextHarness == WriteNewFileCall \/ FormatLintAndTestCall \/ MakePatchAndTestCall

SpecHarness == InitHarness /\ [][NextHarness]_vars

Ran(seq, x) == \E i \in 1..Len(seq) : seq[i] = x

\* C12: when the agent call raises, or its result lacks one of the four
\* attributes, make_patch_and_test does not raise; it returns ("", False, a
\* message starting "Agent failed to generate file"), and neither
\* write_new_file nor format_lint_and_test is invoked.
AgentFailureIsReported ==
    (last.op = "make_patch_and_test" /\ (last.outcome.raises \/ last.outcome.missing # "")) =>
        /\ ~last.raised
        /\ last.ret # None
        /\ last.ret.content = <<>>
        /\ last.ret.tests_passed = FALSE
        /\ last.ret.output[1] = "Agent failed to generate file: "
        /\ ~Ran(last.steps, "write_new_file")
        /\ ~Ran(last.steps, "format_lint_and_test")
        /\ ~Ran(last.commands, HarnessCmd.ruff) /\ ~Ran(last.commands, HarnessCmd.pytest)
        /\ files = last.before

\* The agent returned an object without `filename` on a real run
AgentFailureIsReportedWitness ==
    /\ last.op = "make_patch_and_test"
    /\ last.outcome.missing = "filename"
    /\ ~last.dry_run
    /\ last.ret # None
    /\ last.ret.output = <<"Agent failed to generate file: ", "AttributeError">>

\* C13: with dry_run=True make_patch_and_test leaves the working tree as it
\* was and runs neither the write nor the lint/test commands; after a
\* successful agent call it returns (content, False, text starting "DRY RUN").
DryRunWritesNothing ==
    (last.op = "make_patch_and_test" /\ last.dry_run) =>
        /\ files = last.before
        /\ ~Ran(last.steps, "write_new_file")
        /\ ~Ran(last.steps, "format_lint_and_test")
        /\ ~Ran(last.commands, HarnessCmd.ruff) /\ ~Ran(last.commands, HarnessCmd.pytest)
        /\ ~last.raised
        /\ last.ret.tests_passed = FALSE
        /\ (~last.outcome.raises /\ last.outcome.missing = "") =>
              /\ last.ret.content = last.outcome.content
              /\ last.ret.output[1] = "DRY RUN - File generated but not written."

\* A dry run for a file that does not exist yet
DryRunWritesNothingWitness ==
    /\ last.op = "make_patch_and_test"
    /\ last.dry_run
    /\ ~last.outcome.raises /\ last.outcome.missing = ""
    /\ last.outcome.content = ContentPlain
    /\ last.outcome.filename \notin DOMAIN last.before
    /\ last.ret.content = ContentPlain

\* The write of this call failed: the file existed or the file system refused
WriteFailed ==
    \/ last.outcome.filename \in DOMAIN last.before
    \/ last.world.io # "ok"

\* C14: lint/test runs only after the generated file was written in this
\* call; when the write fails, format_lint_and_test is not invoked and the
\* result is (content, False, "Failed to write file..."); tests_passed is True
\* only if the file was written in this call and every check exited with 0.
LintOnlyAfterWrite ==
    last.op = "make_patch_and_test" =>
        /\ \A i \in 1..Len(last.steps) :
              last.steps[i] = "format_lint_and_test" =>
                  /\ i > 1 /\ last.steps[i - 1] = "write_new_file"
                  /\ ~WriteFailed
                  /\ last.outcome.filename \notin DOMAIN last.before
                  /\ last.outcome.filename \in DOMAIN files
        /\ \A c \in {HarnessCmd.ruff, HarnessCmd.pytest} :
              Ran(last.commands, c) => Ran(last.steps, "format_lint_and_test")
        /\ (Ran(last.steps, "write_new_file") /\ WriteFailed) =>
              /\ ~Ran(last.steps, "format_lint_and_test")
              /\ ~last.raised
              /\ last.ret.content = last.outcome.content
              /\ last.ret.tests_passed = FALSE
              /\ last.ret.output[1] = "Failed to write file:\n"
        /\ (last.ret # None /\ last.ret.tests_passed) =>
              /\ last.outcome.filename \notin DOMAIN last.before
              /\ last.outcome.filename \in DOMAIN files
              /\ \A i \in 1..Len(last.world.lint) : last.world.lint[i] = Exited(0)

\* The generated file already exists: the write fails and no check is run
LintOnlyAfterWriteWitness ==
    /\ last.op = "make_patch_and_test"
    /\ ~last.dry_run
    /\ ~last.outcome.raises /\ last.outcome.missing = ""
    /\ last.outcome.filename \in DOMAIN last.before
    /\ last.steps = <<"repo_snapshot", "agent", "write_new_file">>
    /\ last.ret.output[1] = "Failed to write file:\n"

\* C15: write_new_file never overwrites an existing file: for an existing
\* target it returns (False, "... already exists") and leaves the working
\* tree as it was; on an I/O error it returns (False, "Failed to write
\* file: ..."); it returns True only when it created a file that did not
\* exist before.  No file that existed before the call changes content.
WriteNeverOverwrites ==
    last.op = "write_new_file" =>
        /\ \A f \in DOMAIN last.before : f \in DOMAIN files /\ files[f] = last.before[f]
        /\ last.filename \in DOMAIN last.before =>
              /\ ~last.ok
              /\ last.msg[Len(last.msg)] = " already exists"
              /\ files = last.before
        /\ (last.filename \notin DOMAIN last.before /\ last.io # "ok") =>
              /\ ~last.ok
              /\ last.msg[1] = "Failed to write file: "
        /\ last.ok =>
              /\ last.filename \notin DOMAIN last.before
              /\ last.filename \in DOMAIN files

\* A write of different content over an existing file
WriteNeverOverwritesWitness ==
    /\ last.op = "write_new_file"
    /\ last.filename \in DOMAIN last.before
    /\ strip_markdown_fences(last.content) # last.before[last.filename]
    /\ ~last.ok

\* C16: format_lint_and_test runs ruff first and, whatever ruff's exit code,
\* pytest next; when it returns, all_passed is True exactly when both exit
\* codes were 0 and the output has one pass/fail entry per check, in order.
BothChecksAlwaysRun ==
    last.op = "format_lint_and_test" =>
        /\ last.commands # <<>> /\ last.commands[1] = HarnessCmd.ruff
        /\ ~last.outcomes[1].raises => last.commands = <<HarnessCmd.ruff, HarnessCmd.pytest>>
        /\ ~last.raised =>
              /\ last.commands = <<HarnessCmd.ruff, HarnessCmd.pytest>>
              /\ last.all_passed <=> (\A i \in 1..2 : last.outcomes[i].returncode = 0)
              /\ Len(last.output) = 2
              /\ last.output[1].name = "Ruff linting" /\ last.output[2].name = "Tests"
              /\ \A i \in 1..2 : (last.output[i].mark = "[pass]")
                                    <=> (last.outcomes[i].returncode = 0)

\* ruff fails, pytest still runs and passes
BothChecksAlwaysRunWitness ==
    /\ last.op = "format_lint_and_test"
    /\ last.outcomes = <<Exited(1), Exited(0)>>
    /\ last.commands = <<HarnessCmd.ruff, HarnessCmd.pytest>>
    /\ ~last.all_passed

\* The lines a content is put together from
FenceLines ==
    { <<Backtick,Backtick,Backtick>>, <<Backtick,Backtick,Backtick,"p","y">>,
      <<" ",Backtick,Backtick,Backtick," ">>, <<"x","=","1">>, <<>>,
      <<"x",Backtick,Backtick,Backtick>> }

RECURSIVE SeqsUpTo(_, _)
SeqsUpTo(S, n) ==
    IF n = 0 THEN {<<>>}
    ELSE LET shorter == SeqsUpTo(S, n - 1) IN
         shorter \cup { <<x>> \o q : x \in S, q \in { q \in shorter : Len(q) = n - 1 } }

InitFences ==
    /\ FreshProcess
    /\ env = << >>
    /\ dotenv = << >>
    /\ langfuse_pkg = TRUE
    /\ \E ls \in SeqsUpTo(FenceLines, MaxLines) :
         last = [op |-> "input", content |-> join("\n", ls)]

\* A call strip_markdown_fences(content)
StripMarkdownFencesCall ==
    /\ last.op = "input"
    /\ last' = [op |-> "strip_markdown_fences", content |-> last.content,
                ret |-> strip_markdown_fences(last.content)]
    /\ UNCHANGED <<env, dotenv, langfuse_pkg, dspy_lm, LANGFUSE_CLIENT, lms_built,
                   clients_built, starter, agent, files, embedder>>

NextFences == StripMarkdownFencesCall

SpecFences == InitFences /\ [][NextFences]_vars

IsPrefix(a, b) == Len(a) <= Len(b) /\ a = SubSeq(b, 1, Len(a))

NoRepeats(seq) == \A i, j \in 1..Len(seq) : seq[i] = seq[j] => i = j

\* C22: one make_patch_and_test call runs its steps in the order repo
\* snapshot, agent call, file write, lint, tests, each at most once: the steps
\* it ran are an initial part of that order, no command is run twice, the
\* snapshot's git commands all come before the checks, and ruff comes before
\* pytest.
StepsInOrderOnce ==
    last.op = "make_patch_and_test" =>
        /\ IsPrefix(last.steps,
                    <<"repo_snapshot", "agent", "write_new_file", "format_lint_and_test">>)
        /\ IsPrefix(<<"repo_snapshot", "agent">>, last.steps)
        /\ NoRepeats(last.commands)
        /\ \E k \in 1..3 : \E n \in 0..2 :
              /\ Len(last.commands) = k + n
              /\ IsPrefix(SubSeq(last.commands, 1, k),
                          <<HarnessCmd.ls_files, HarnessCmd.diff, HarnessCmd.status>>)
              /\ SubSeq(last.commands, k + 1, k + n)
                    = SubSeq(<<HarnessCmd.ruff, HarnessCmd.pytest>>, 1, n)
              /\ (n > 0) <=> Ran(last.steps, "format_lint_and_test")

\* A real run in which ruff failed: pytest still follows it, once, and nothing
\* is run again
StepsInOrderOnceWitness ==
    /\ last.op = "make_patch_and_test"
    /\ ~last.dry_run
    /\ last.world.lint = <<Exited(1), Exited(0)>>
    /\ last.steps = <<"repo_snapshot", "agent", "write_new_file", "format_lint_and_test">>
    /\ last.commands = <<HarnessCmd.ls_files, HarnessCmd.diff, HarnessCmd.status,
                         HarnessCmd.ruff, HarnessCmd.pytest>>
    /\ ~last.ret.tests_passed

-----------------------------------------------------------------------------
(* examples/coding_agent/src/adl_agent/cli.py: the adl-agent command       *)

ANTHROPIC_API_KEY == <<"A","N","T","H","R","O","P","I","C","_","A","P","I","_","K","E","Y">>

\* Lines 16-52: setup_dspy exits with status 1 when the API key the model
\* needs is not set; otherwise it constructs and configures the LM
setup_dspy(e) ==
    LET CliDefaultModel == <<"g","p","t","-","4","o","-","m","i","n","i">>
        AnthropicPrefix == <<"a","n","t","h","r","o","p","i","c","/">>
        OpenaiPrefix == <<"o","p","e","n","a","i","/">>
        GptPrefix == <<"g","p","t","-">>
        model == getenv(e, OPENAI_MODEL, CliDefaultModel)
    IN
    [model |-> model,
     exits |-> IF startswith(model, AnthropicPrefix) THEN ~Truthy(e, ANTHROPIC_API_KEY)
               ELSE IF startswith(model, OpenaiPrefix) \/ startswith(model, GptPrefix)
                    THEN ~Truthy(e, OPENAI_API_KEY)
               ELSE FALSE]


\* The git and gh commands main runs (lines 90-176)
GitCmd ==
    [rev_parse |-> "git rev-parse --abbrev-ref HEAD", checkout_new |-> "git checkout -b",
     checkout |-> "git checkout", add |-> "git add -A", commit |-> "git commit -m",
     label |-> "gh label create agent-generated", push |-> "git push -u origin",
     pr_create |-> "gh pr create --fill"]

\* The branch name of line 101
AgentBranch == "agent/task"

\* run_command with check=True raises CalledProcessError for a non-zero exit
CalledProcessError(outcome) == ~outcome.raises /\ outcome.returncode # 0

\* Line 81 with the .git test dropped
NotARepository_exists_only(repo) == ~repo.exists

\* Line 81
NotARepository(repo) == ~repo.exists \/ ~repo.git

\* Line 150 always true: commit whatever the tests said
TestsPassed_always(tests_passed) == TRUE

\* Line 150
TestsPassed(tests_passed) == tests_passed

\* Lines 88-117 followed by a checkout of the branch the run started on
SwitchBranch_and_back(git, head) ==
    LET current_branch == IF CalledProcessError(git.rev_parse) THEN "main" ELSE head
        created == ~CalledProcessError(git.checkout_new)
        switched == created \/ ~CalledProcessError(git.checkout)
    IN [commands |-> IF created THEN <<GitCmd.rev_parse, GitCmd.checkout_new>>
                     ELSE <<GitCmd.rev_parse, GitCmd.checkout_new, GitCmd.checkout>>,
        current_branch |-> current_branch,
        branch |-> IF switched THEN AgentBranch ELSE current_branch,
        head |-> head]

\* Lines 88-117: the branch switch.  git holds what each git command does,
\* head the branch checked out when the command starts.
SwitchBranch(git, head) ==
    LET current_branch == IF CalledProcessError(git.rev_parse) THEN "main" ELSE head
        created == ~CalledProcessError(git.checkout_new)
        switched == created \/ ~CalledProcessError(git.checkout)
    IN [commands |-> IF created THEN <<GitCmd.rev_parse, GitCmd.checkout_new>>
                     ELSE <<GitCmd.rev_parse, GitCmd.checkout_new, GitCmd.checkout>>,
        current_branch |-> current_branch,
        branch |-> IF switched THEN AgentBranch ELSE current_branch,
        head |-> IF switched THEN AgentBranch ELSE head]

\* Lines 152-180: the commit and, with --open-pr, the pull request.  exit is
\* the process status: 1 from the CalledProcessError handler, 1 from an
\* exception nothing catches (gh cannot be started), 0 when main returns.
CommitAndPr(git, open_pr, branch) ==
    IF CalledProcessError(git.add)
    THEN [commands |-> <<GitCmd.add>>, exit |-> 1, committed |-> FALSE, pushed |-> ""]
    ELSE IF CalledProcessError(git.commit)
    THEN [commands |-> <<GitCmd.add, GitCmd.commit>>, exit |-> 1, committed |-> FALSE, pushed |-> ""]
    ELSE IF ~open_pr
    THEN [commands |-> <<GitCmd.add, GitCmd.commit>>, exit |-> 0, committed |-> TRUE, pushed |-> ""]
    ELSE IF CalledProcessError(git.push)
    THEN [commands |-> <<GitCmd.add, GitCmd.commit, GitCmd.label, GitCmd.push>>, exit |-> 1,
          committed |-> TRUE, pushed |-> ""]
    ELSE [commands |-> <<GitCmd.add, GitCmd.commit, GitCmd.label, GitCmd.push, GitCmd.pr_create>>,
          exit |-> IF git.pr_create = Exited(0) THEN 0 ELSE 1,
          committed |-> TRUE, pushed |-> branch]

\* The result of a run that ended before any command was started
EarlyExit(fs, head, stage, exit) ==
    [exit |-> exit, stage |-> stage, setup_dspy_called |-> stage = "setup_dspy",
     commands |-> <<>>, files |-> fs, head |-> head,
     branch |-> "", pushed |-> "", committed |-> FALSE, harness |-> None]

\* Lines 55-184: one run of the command.  args: the parsed command line;
\* e: the environment; fs, head: the target repository's working tree and
\* checked-out branch; world: what the repository, the agent, the file
\* system and the subprocesses do when reached.
main(args, e, fs, head, world) ==
    LET sw == SwitchBranch(world.git, head)
        r == make_patch_and_test(fs, world.agent, args.dry_run, world.harness)
        c == CommitAndPr(world.git, args.open_pr, sw.branch)
        ran == [exit |-> 0, stage |-> "", setup_dspy_called |-> TRUE,
                commands |-> sw.commands \o r.commands,
                files |-> r.files, head |-> sw.head, branch |-> sw.branch,
                pushed |-> "", committed |-> FALSE,
                harness |-> [raised |-> r.raised, ret |-> r.ret, steps |-> r.steps]]
    IN
    IF args.version THEN EarlyExit(fs, head, "version", 0)
    ELSE IF ~args.task \/ ~args.repo THEN EarlyExit(fs, head, "argparse", 2)
    ELSE IF NotARepository(world.repo) THEN EarlyExit(fs, head, "repository", 1)
    ELSE IF setup_dspy(e).exits THEN EarlyExit(fs, head, "setup_dspy", 1)
    ELSE IF r.raised THEN [ran EXCEPT !.exit = 1, !.stage = "uncaught"]
    ELSE IF r.ret.content = <<>> THEN [ran EXCEPT !.exit = 2, !.stage = "no_patch"]
    ELSE IF args.dry_run THEN [ran EXCEPT !.exit = 0, !.stage = "dry_run"]
    ELSE IF TestsPassed(r.ret.tests_passed)
         THEN [ran EXCEPT !.exit = c.exit, !.stage = "commit",
                          !.commands = @ \o c.commands,
                          !.pushed = c.pushed, !.committed = c.committed]
    ELSE [ran EXCEPT !.exit = 1, !.stage = "tests_failed"]

\* The branch checked out in the target repository before the first run
OriginalBranch == "dev"

\* sys.argv after parsing: --version given, task and --repo given and not
\* empty, --dry-run, --open-pr
CliArgs == [version : BOOLEAN, task : BOOLEAN, repo : BOOLEAN,
            dry_run : BOOLEAN, open_pr : BOOLEAN]

\* What --repo points at
Repositories == { [exists |-> TRUE, git |-> TRUE], [exists |-> TRUE, git |-> FALSE],
                  [exists |-> FALSE, git |-> FALSE] }

CliEnvs ==
    { << >>,
      (OPENAI_API_KEY :> Key1),
      (OPENAI_MODEL :> <<"a","n","t","h","r","o","p","i","c","/","c">>),
      (OPENAI_MODEL :> <<"a","n","t","h","r","o","p","i","c","/","c">>) @@ (ANTHROPIC_API_KEY :> Key1),
      (OPENAI_MODEL :> <<"l","o","c","a","l">>) }

CliAgentOutcomes ==
    { AgentRaises("ValueError"), AgentResult("utils.py", ContentPlain, ""),
      AgentResult("utils.py", <<>>, "") }

CliLintOutcomes ==
    { <<Exited(0), Exited(0)>>, <<Exited(1), Exited(0)>>, <<LaunchFails, Exited(0)>> }

\* Whether the run gets as far as the branch switch and the harness
ReachesHarness(args, repo, e) ==
    /\ ~args.version /\ args.task /\ args.repo
    /\ ~NotARepository(repo)
    /\ ~setup_dspy(e).exits

CliHarnessWorlds(fs, outcome, dry_run, reached) ==
    IF ~reached THEN { [ls_files |-> Exited(0), io |-> "ok", lint |-> <<Exited(0), Exited(0)>>] }
    ELSE { w \in Worlds(fs, outcome, dry_run) :
             w.ls_files = Exited(0) /\ w.lint \in CliLintOutcomes }

BranchOk == [rev_parse |-> Exited(0), checkout_new |-> Exited(0), checkout |-> Exited(0)]

\* What the git commands of the branch switch do; `git checkout` is only
\* reached when `git checkout -b` failed
BranchWorlds ==
    { g \in [rev_parse : {Exited(0), Exited(128)}, checkout_new : {Exited(0), Exited(128)},
             checkout : {Exited(0), Exited(1)}] :
        g.checkout_new = Exited(0) => g.checkout = Exited(0) }

CommitOk == [add |-> Exited(0), commit |-> Exited(0), label |-> Exited(0),
             push |-> Exited(0), pr_create |-> Exited(0)]

\* What the commands of the commit block do, each command varied only when
\* the ones before it let the run reach it
CommitWorlds(open_pr) ==
    { g \in [add : {Exited(0), Exited(1)}, commit : {Exited(0), Exited(1)},
             label : {Exited(0), Exited(1), LaunchFails}, push : {Exited(0), Exited(1)},
             pr_create : {Exited(0), Exited(1), LaunchFails}] :
        /\ g.add # Exited(0) => g.commit = Exited(0)
        /\ (g.add # Exited(0) \/ g.commit # Exited(0) \/ ~open_pr) =>
              g.label = Exited(0) /\ g.push = Exited(0) /\ g.pr_create = Exited(0)
        /\ g.push # Exited(0) => g.pr_create = Exited(0) }

\* The state a run starts in: a fresh process, and a target repository in
\* which the file the agent will name may already exist
InitCli ==
    /\ dspy_lm = None
    /\ LANGFUSE_CLIENT = None
    /\ lms_built = 0
    /\ clients_built = 0
    /\ starter = FALSE
    /\ agent = None
    /\ files \in {<< >>, ("utils.py" :> <<"o","l","d">>)}
    /\ embedder = None
    /\ env \in CliEnvs
    /\ dotenv = << >>
    /\ langfuse_pkg = TRUE
    /\ last = [op |-> "init", head |-> OriginalBranch]

\* The run of `adl-agent` in this process
Main ==
    /\ last.op = "init"
    /\ \E args \in CliArgs : \E repo \in Repositories :
       \E reached \in {ReachesHarness(args, repo, env)} :
       \E outcome \in IF reached THEN CliAgentOutcomes ELSE {AgentRaises("ValueError")} :
       \E hw \in CliHarnessWorlds(files, outcome, args.dry_run, reached) :
       \E h \in {make_patch_and_test(files, outcome, args.dry_run, hw)} :
       \E gb \in IF reached THEN BranchWorlds ELSE {BranchOk} :
       \E gc \in IF reached /\ ~h.raised /\ ~args.dry_run /\ h.ret.tests_passed
                 THEN CommitWorlds(args.open_pr) ELSE {CommitOk} :
       \E world \in {[repo |-> repo, agent |-> outcome, harness |-> hw, git |-> gb @@ gc]} :
       \E r \in {main(args, env, files, last.head, world)} :
         /\ files' = r.files
         /\ UNCHANGED embedder
         /\ last' = [op |-> "main", args |-> args, world |-> world, before |-> files,
                     head_before |-> last.head, head |-> r.head, exit |-> r.exit,
                     stage |-> r.stage, setup_dspy_called |-> r.setup_dspy_called,
                     commands |-> r.commands, branch |-> r.branch, pushed |-> r.pushed,
                     committed |-> r.committed, harness |-> r.harness]
    /\ UNCHANGED <<env, dotenv, langfuse_pkg, dspy_lm, LANGFUSE_CLIENT, lms_built,
                   clients_built, starter, agent>>

NextCli == Main

SpecCli == InitCli /\ [][NextCli]_vars

\* The harness returned a non-empty patch on a real run with passing tests
PatchTestedOk ==
    /\ last.harness # None
    /\ ~last.harness.raised
    /\ last.harness.ret.content # <<>>
    /\ ~last.args.dry_run
    /\ last.harness.ret.tests_passed

\* C17: the command runs `git add` / `git commit` only when make_patch_and_test
\* returned a non-empty patch, --dry-run is not set and tests_passed is True;
\* it runs `git push` / `gh pr create` only when in addition --open-pr is set
\* and the commit succeeded.
CommitOnlyAfterPassingTests ==
    last.op = "main" =>
        /\ (Ran(last.commands, GitCmd.add) \/ Ran(last.commands, GitCmd.commit)) => PatchTestedOk
        /\ (Ran(last.commands, GitCmd.push) \/ Ran(last.commands, GitCmd.pr_create)) =>
              /\ PatchTestedOk
              /\ last.args.open_pr
              /\ Ran(last.commands, GitCmd.commit)
              /\ last.world.git.add = Exited(0)
              /\ last.world.git.commit = Exited(0)

\* A run with --open-pr that committed, pushed and opened the pull request
CommitOnlyAfterPassingTestsWitness ==
    /\ last.op = "main"
    /\ last.args.open_pr
    /\ Ran(last.commands, GitCmd.commit)
    /\ Ran(last.commands, GitCmd.pr_create)
    /\ last.exit = 0

\* What a command of the commit block did in the last run
OutcomeOf(git, cmd) ==
    IF cmd = GitCmd.add THEN git.add
    ELSE IF cmd = GitCmd.commit THEN git.commit
    ELSE IF cmd = GitCmd.push THEN git.push
    ELSE git.pr_create

\* A command of the commit block that was run with check=True did not succeed
CheckedCommandFailed ==
    \E i \in 1..Len(last.commands) :
        /\ last.commands[i] \in {GitCmd.add, GitCmd.commit, GitCmd.push, GitCmd.pr_create}
        /\ OutcomeOf(last.world.git, last.commands[i]) # Exited(0)

BothCheckoutsFailed ==
    /\ last.world.git.checkout_new # Exited(0)
    /\ last.world.git.checkout # Exited(0)

\* The file the agent named was created by the last run
FileCreated ==
    /\ last.harness # None
    /\ Ran(last.harness.steps, "write_new_file")
    /\ last.world.agent.filename \notin DOMAIN last.before
    /\ last.world.harness.io \in {"ok", "write_raises"}

\* C27: when both `git checkout -b <branch>` and `git checkout <branch>` fail
\* the run is not aborted; it continues on the branch that was current at
\* the start, and a run that then succeeds writes the file, commits and, with
\* --open-pr, pushes on that original branch, not on the agent branch.
CheckoutFailureStaysOnOriginal ==
    (last.op = "main" /\ last.harness # None /\ BothCheckoutsFailed) =>
        /\ last.head = last.head_before
        /\ Ran(last.commands, HarnessCmd.ls_files)
        /\ Ran(last.harness.steps, "agent")
        /\ last.branch = last.head_before
        /\ last.branch # AgentBranch
        /\ (PatchTestedOk /\ last.world.git.add = Exited(0)
              /\ last.world.git.commit = Exited(0)) =>
                /\ last.world.agent.filename \in DOMAIN files
                /\ last.committed
                /\ last.args.open_pr =>
                      /\ Ran(last.commands, GitCmd.push)
                      /\ last.world.git.push = Exited(0) => last.pushed = last.head_before

\* C28: there is no rollback: once write_new_file has created the file it
\* is in the working tree when the command ends, whatever happened next
\* (a check could not be started, lint or tests failed, git add or git commit
\* failed); after failed checks or a failed add or commit the command exits
\* with a non-zero status (2 when the generated content is empty, else 1) and
\* the file is not committed, on the branch the run worked on.
NoRollback ==
    (last.op = "main" /\ FileCreated) =>
        /\ last.world.agent.filename \in DOMAIN files
        /\ last.world.harness.io = "ok" =>
              files[last.world.agent.filename] = strip_markdown_fences(last.world.agent.content)
        /\ \A f \in DOMAIN last.before : f \in DOMAIN files /\ files[f] = last.before[f]
        /\ last.head = IF BothCheckoutsFailed THEN last.head_before ELSE AgentBranch
        /\ (\/ last.harness.raised
            \/ ~last.harness.ret.tests_passed
            \/ (Ran(last.commands, GitCmd.add) /\ last.world.git.add # Exited(0))
            \/ (Ran(last.commands, GitCmd.commit) /\ last.world.git.commit # Exited(0))) =>
              /\ ~last.committed
              /\ last.exit = IF last.stage = "no_patch" THEN 2 ELSE 1
              /\ last.pushed = ""
        /\ last.committed => (PatchTestedOk /\ last.world.git.commit = Exited(0))

\* The tests failed: the file stays, uncommitted, on the agent branch
NoRollbackWitness ==
    /\ last.op = "main"
    /\ FileCreated
    /\ last.stage = "tests_failed"
    /\ last.world.harness.lint = <<Exited(1), Exited(0)>>
    /\ files = ("utils.py" :> ContentPlain)
    /\ last.head = AgentBranch
    /\ last.exit = 1

\* C30: the command switches to the agent branch before the agent is called,
\* in every mode including --dry-run, and never checks the original branch
\* out again: after a successful switch the repository is on the agent
\* branch when the command ends, on every exit path (dry run, no patch, tests
\* failed, commit made), no checkout follows the harness, and the saved
\* original branch name is the commit/push branch only when the switch failed.
LeftOnAgentBranch ==
    (last.op = "main" /\ last.harness # None) =>
        /\ \E i \in 1..Len(last.commands) :
              /\ last.commands[i] = GitCmd.checkout_new
              /\ \A j \in 1..Len(last.commands) :
                    last.commands[j] = HarnessCmd.ls_files => i < j
        /\ \A i, j \in 1..Len(last.commands) :
              (last.commands[i] \in {GitCmd.checkout_new, GitCmd.checkout}
                 /\ last.commands[j] \notin {GitCmd.rev_parse, GitCmd.checkout_new,
                                              GitCmd.checkout}) => i < j
        /\ ~BothCheckoutsFailed =>
              /\ last.head = AgentBranch
              /\ last.branch = AgentBranch
              /\ last.pushed \in {"", AgentBranch}
              /\ last.stage \in {"dry_run", "no_patch", "tests_failed", "commit", "uncaught"}
        /\ last.branch # AgentBranch => BothCheckoutsFailed

\* A dry run whose `git checkout -b` failed and whose `git checkout` worked
LeftOnAgentBranchWitness ==
    /\ last.op = "main"
    /\ last.args.dry_run
    /\ last.stage = "dry_run"
    /\ last.world.git.checkout_new = Exited(128)
    /\ last.world.git.checkout = Exited(0)
    /\ last.head_before = OriginalBranch
    /\ last.head = AgentBranch
    /\ files = last.before

-----------------------------------------------------------------------------
(* examples/influencer_assistant/src/influencer_assistant/dspy/            *)
(* video_ideas.py: VideoIdeaGenerator                                      *)

\* VideoIdea.pillar is `str | None`
PillarStr(chars) == [kind |-> "str", s |-> chars]
PillarNone == [kind |-> "none", s |-> <<>>]

VideoIdea(title, summary, pillar) == [title |-> title, summary |-> summary, pillar |-> pillar]

\* Index of the first occurrence of sub in s, 0 when there is none
Find(s, sub) ==
    IF Contains(sub, s)
    THEN CHOOSE i \in 1..(Len(s) - Len(sub) + 1) :
             /\ SubSeq(s, i, i + Len(sub) - 1) = sub
             /\ \A j \in 1..(i - 1) : SubSeq(s, j, j + Len(sub) - 1) # sub
    ELSE 0

\* Index of the last occurrence of the character c in s, 0 when there is none
RFind(s, c) ==
    IF \E i \in 1..Len(s) : s[i] = c
    THEN CHOOSE i \in 1..Len(s) : s[i] = c /\ \A j \in (i + 1)..Len(s) : s[j] # c
    ELSE 0

\* Line 145 without the `not pillar` test: the profile's pillars always win
UseDefaultPillar_always(own, default_pillars) == default_pillars # <<>>

\* Line 145: `if not pillar and default_pillars`
UseDefaultPillar(own, default_pillars) == own = <<>> /\ default_pillars # <<>>

\* Lines 123-155 for one non-blank line (already stripped): the idea it
\* yields.  k is current_pillar_index.
ParseLine_idea(stripped, default_pillars, k) ==
    LET NumberingChars == Digits \cup {")", ".", " "}
        Dash == <<" ", "-", " ">>
        DefaultTitle == <<"I","d","e","a">>
        DefaultSummary == <<"F","i","l","l"," ","i","n"," ","d","e","t","a","i","l","s">>
        line == IF stripped[1] \in Digits THEN LStrip(stripped, NumberingChars) ELSE stripped
        bar == RFind(line, "|")
        left == IF bar > 0 THEN strip(SubSeq(line, 1, bar - 1), Whitespace) ELSE line
        named == bar > 0
        own == IF bar > 0 THEN strip(SubSeq(line, bar + 1, Len(line)), Whitespace) ELSE <<>>
        d == Find(left, Dash)
        title == IF d > 0 THEN strip(SubSeq(left, 1, d - 1), Whitespace)
                 ELSE strip(left, Whitespace)
        summary == IF d > 0 THEN strip(SubSeq(left, d + 3, Len(left)), Whitespace) ELSE <<>>
        pillar == IF UseDefaultPillar(own, default_pillars)
                  THEN PillarStr(default_pillars[(k % Len(default_pillars)) + 1])
                  ELSE IF named THEN PillarStr(own) ELSE PillarNone
    IN [idea |-> VideoIdea(IF title = <<>> THEN DefaultTitle ELSE title,
                           IF summary = <<>> THEN DefaultSummary ELSE summary,
                           pillar),
        k |-> IF UseDefaultPillar(own, default_pillars) THEN k + 1 ELSE k]

\* Lines 119-155: the loop over the lines
RECURSIVE ParseLines(_, _, _)
ParseLines(lines, default_pillars, k) ==
    IF lines = <<>> THEN <<>>
    ELSE LET stripped == strip(Head(lines), Whitespace) IN
         IF stripped = <<>> THEN ParseLines(Tail(lines), default_pillars, k)
         ELSE LET p == ParseLine_idea(stripped, default_pillars, k) IN
              <<p.idea>> \o ParseLines(Tail(lines), default_pillars, p.k)

\* Lines 113-157; line 157 is ideas[: max(1, max_ideas)]
parse_ideas(text, default_pillars, max_ideas) ==
    LET ideas == ParseLines(splitlines(text), default_pillars, 0)
        limit == IF max_ideas > 1 THEN max_ideas ELSE 1
    IN SubSeq(ideas, 1, IF Len(ideas) < limit THEN Len(ideas) ELSE limit)

Strategy == <<"S","t","r","a","t","e","g","y">>

base_titles ==
    << <<"P","l","a","y","b","o","o","k"," ","S","p","o","t","l","i","g","h","t">>,
       <<"B","e","h","i","n","d","-","t","h","e","-","S","c","e","n","e","s"," ","O","p","s">>,
       <<"A","u","t","o","m","a","t","i","o","n"," ","B","o","o","s","t">>,
       <<"C","o","m","m","u","n","i","t","y"," ","W","i","n","s">> >>

\* Line 169 without the round robin: every idea gets the first pillar
FallbackPillars_first_only(content_pillars) ==
    IF content_pillars = <<>> THEN <<Strategy>> ELSE <<content_pillars[1]>>

\* Line 169: profile.content_pillars or ["Strategy"]
FallbackPillars(content_pillars) ==
    IF content_pillars = <<>> THEN <<Strategy>> ELSE content_pillars

\* Lines 160-189
fallback_ideas(profile, request, max_ideas) ==
    LET pillars == FallbackPillars(profile.content_pillars)
        SummaryHead == <<"A","c","t","i","o","n","a","b","l","e"," ","i","d","e","a"," ","i","n","s","p","i","r","e","d"," ","b","y"," ","t","h","e"," ","'">>
        SummaryMid == <<"'"," ","p","i","l","l","a","r"," ","t","o"," ","a","d","d","r","e","s","s",":"," ">>
    IN
    [n \in 1..max_ideas |->
        LET idx == n - 1
            pillar == pillars[(idx % Len(pillars)) + 1]
        IN VideoIdea(pillar \o <<" ">> \o base_titles[(idx % Len(base_titles)) + 1],
                     SummaryHead \o pillar \o SummaryMid \o request \o <<".">>,
                     PillarStr(pillar))]

\* self.predict(...) raised instead of returning a prediction
PredictRaises == [raises |-> TRUE, response |-> <<>>]
LmResponse(text) == [raises |-> FALSE, response |-> text]

\* Line 89 never true: an empty parse is returned as it is
EmptyResponse_never(ideas) == FALSE

\* Line 89: if not ideas
EmptyResponse(ideas) == ideas = <<>>

\* Lines 51-110.  st: the process state the call starts in; cfg: what the
\* configure_lm_from_env call of line 58 did; inp: the outcomes of the calls
\* into the predictor and langfuse.  Python None as a fallback_reason or a
\* variation_token is the string "None".
generate_ideas(st, cfg, inp, profile, request, target_count) ==
    LET no_lm == cfg.lm = None
        parsed == parse_ideas(inp.pred.response, profile.content_pillars, target_count)
        ideas == IF no_lm \/ EmptyResponse(parsed)
                 THEN fallback_ideas(profile, request, target_count) ELSE parsed
        fallback_reason == IF no_lm THEN "no_lm"
                           ELSE IF EmptyResponse(parsed) THEN "empty_response" ELSE "None"
        metadata == [variation_token |-> "None", fallback_reason |-> fallback_reason]
        log == log_langfuse_generation(
                   [pkg |-> st.pkg, client |-> st.client, env |-> cfg.env,
                    clients_built |-> st.clients_built, lm |-> cfg.lm],
                   inp.ctorOk, "influencer-video-ideas", request,
                   [handle |-> profile.handle, ideas |-> ideas], metadata, inp.failAt)
    IN
    IF ~no_lm /\ inp.pred.raises
    THEN [env |-> cfg.env, lm |-> cfg.lm, lms_built |-> st.lms_built + cfg.built,
          client |-> st.client, clients_built |-> st.clients_built,
          predictor_invoked |-> TRUE, raised |-> TRUE, ideas |-> <<>>,
          log_calls |-> <<>>, tracing |-> <<>>]
    ELSE [env |-> cfg.env, lm |-> cfg.lm, lms_built |-> st.lms_built + cfg.built,
          client |-> log.client, clients_built |-> st.clients_built + log.built,
          predictor_invoked |-> ~no_lm, raised |-> log.raised,
          ideas |-> IF log.raised THEN <<>> ELSE ideas,
          log_calls |-> <<metadata>>, tracing |-> log.calls]

PillarOps == <<"O","p","s">>
PillarAI == <<"A","I">>

Profiles ==
    { [handle |-> "@creator", content_pillars |-> ps] :
        ps \in { <<>>, <<PillarOps>>, <<PillarOps, PillarAI>> } }

\* Values of target_count; 5 exceeds the number of base titles
TargetCounts == {0, 2, 5}

IdeasRequest == <<"G","o">>

\* Two ideas naming the profile's pillars
ResponseOwnPillars ==
    <<"1","."," ","A"," ","-"," ","s"," ","|"," ","O","p","s","\n","2","."," ","B"," ","-"," ","t"," ","|"," ","A","I">>
\* An idea naming a pillar of its own
ResponseForeignPillar ==
    <<"1",")"," ","A"," ","-"," ","s"," ","|"," ","F","o","o">>
\* Three bare titles
ResponseTitles ==
    <<"A","\n","B","\n","C">>
\* A bar with nothing after it
ResponseEmptyPillar ==
    <<"A"," ","-"," ","s"," ","|">>
ResponseBlank ==
    <<" ","\n">>

LmResponses ==
    { PredictRaises } \cup
    { LmResponse(t) : t \in { ResponseOwnPillars, ResponseForeignPillar, ResponseTitles,
                              ResponseEmptyPillar, ResponseBlank, <<>> } }

InitVideoIdeas ==
    /\ FreshProcess
    /\ langfuse_pkg = TRUE
    /\ env \in AgentEnvs
    /\ dotenv = [i \in 1..NumCandidates |-> Missing]
    /\ last = [op |-> "init"]

\* A call generator(profile, request=...) of a VideoIdeaGenerator built with
\* target_count
VideoIdeasForward ==
    /\ \E cwdOk \in CwdChoices :
       \E outcome \in OutcomesFor(env, dotenv, cwdOk, dspy_lm) :
       \E cfg \in {configure_lm_from_env(env, dotenv, cwdOk, dspy_lm, lms_built, outcome)} :
       \E pred \in IF cfg.lm = None THEN {PredictRaises} ELSE LmResponses :
       \E ctorOk \in IF cfg.lm # None /\ pred.raises THEN {TRUE}
                     ELSE CtorChoices(langfuse_pkg, LANGFUSE_CLIENT, cfg.env) :
       \E failAt \in IF cfg.lm # None /\ pred.raises THEN {0}
                     ELSE FailChoices(langfuse_pkg, LANGFUSE_CLIENT, cfg.env, ctorOk) :
       \E profile \in Profiles : \E target_count \in TargetCounts :
       \E r \in {generate_ideas(ProcessState, cfg,
                                [pred |-> pred, ctorOk |-> ctorOk, failAt |-> failAt],
                                profile, IdeasRequest, target_count)} :
         /\ r.lms_built <= MaxLms
         /\ r.clients_built <= MaxClients
         /\ env' = r.env
         /\ dspy_lm' = r.lm
         /\ lms_built' = r.lms_built
         /\ LANGFUSE_CLIENT' = r.client
         /\ clients_built' = r.clients_built
         /\ last' = [op |-> "VideoIdeaGenerator.forward", profile |-> profile,
                     target_count |-> target_count, pred |-> pred,
                     no_lm |-> (cfg.lm = None),
                     predictor_invoked |-> r.predictor_invoked, raised |-> r.raised,
                     ideas |-> r.ideas, log_calls |-> r.log_calls, tracing |-> r.tracing]
    /\ UNCHANGED <<dotenv, langfuse_pkg, starter, agent, files, embedder>>

NextVideoIdeas == VideoIdeasForward

SpecVideoIdeas == InitVideoIdeas /\ [][NextVideoIdeas]_vars

\* C19: when no LM is configured, forward makes no LM call and returns
\* exactly target_count ideas; idea number n (from 0) has the non-empty pillar
\* content_pillars[n mod len], or "Strategy" when the profile has no pillars;
\* the one log_generation call carries fallback_reason = "no_lm".
NoLmFallbackIdeas ==
    (last.op = "VideoIdeaGenerator.forward" /\ last.no_lm) =>
        /\ ~last.predictor_invoked
        /\ ~last.raised
        /\ Len(last.ideas) = last.target_count
        /\ \A n \in 1..Len(last.ideas) :
              /\ last.ideas[n].pillar.kind = "str"
              /\ last.ideas[n].pillar.s # <<>>
              /\ last.ideas[n].pillar.s =
                    IF last.profile.content_pillars = <<>> THEN Strategy
                    ELSE last.profile.content_pillars[
                             ((n - 1) % Len(last.profile.content_pillars)) + 1]
        /\ Len(last.log_calls) = 1
        /\ last.log_calls[1].fallback_reason = "no_lm"

\* Five fallback ideas over two pillars: the pillars alternate
NoLmFallbackIdeasWitness ==
    /\ last.op = "VideoIdeaGenerator.forward"
    /\ last.no_lm
    /\ last.target_count = 5
    /\ last.profile.content_pillars = <<PillarOps, PillarAI>>
    /\ Len(last.ideas) = 5
    /\ last.ideas[4].pillar = PillarStr(PillarAI)

\* C26: for every target_count >= 1, every profile and every LM response,
\* forward returns at least 1 and at most target_count ideas; when an LM is
\* configured and its response parses to no ideas, the fallback list is
\* returned with fallback_reason = "empty_response"; and forward makes exactly
\* one log_generation call on each of its three paths.
IdeasCountBounded ==
    (/\ last.op = "VideoIdeaGenerator.forward"
     /\ last.target_count >= 1
     /\ ~(last.predictor_invoked /\ last.pred.raises)) =>
        LET parsed == parse_ideas(last.pred.response, last.profile.content_pillars,
                                  last.target_count)
        IN /\ ~last.raised
           /\ Len(last.ideas) >= 1
           /\ Len(last.ideas) <= last.target_count
           /\ Len(last.log_calls) = 1
           /\ last.no_lm => last.log_calls[1].fallback_reason = "no_lm"
           /\ (~last.no_lm /\ parsed = <<>>) =>
                 /\ last.ideas = fallback_ideas(last.profile, IdeasRequest, last.target_count)
                 /\ last.log_calls[1].fallback_reason = "empty_response"
           /\ (~last.no_lm /\ parsed # <<>>) =>
                 /\ last.ideas = parsed
                 /\ last.log_calls[1].fallback_reason = "None"

\* The LM answered with blank lines only: two fallback ideas come back
IdeasCountBoundedWitness ==
    /\ last.op = "VideoIdeaGenerator.forward"
    /\ ~last.no_lm
    /\ last.pred = LmResponse(ResponseBlank)
    /\ last.target_count = 2
    /\ Len(last.ideas) = 2
    /\ last.log_calls = <<[variation_token |-> "None", fallback_reason |-> "empty_response"]>>

\* C20: every idea forward returns has a pillar that is one of the profile's
\* content_pillars, whatever the LM response and on the fallback paths.
PillarAdherence ==
    last.op = "VideoIdeaGenerator.forward" =>
        \A n \in 1..Len(last.ideas) :
            /\ last.ideas[n].pillar.kind = "str"
            /\ \E i \in 1..Len(last.profile.content_pillars) :
                   last.profile.content_pillars[i] = last.ideas[n].pillar.s

-----------------------------------------------------------------------------
(* examples/influencer_assistant/training/tune_video_ideas.py: the metrics *)

\* An example or prediction object: the nine structured attributes, as three
\* (title, summary, pillar) triples, and the free-form response.  A missing
\* or None attribute reads as "" (line 48: getattr(obj, name, "") or "").
MetricObj(ideas, response) == [ideas |-> ideas, response |-> response]

\* Python sep.join(parts) for strings
RECURSIVE JoinStr(_, _)
JoinStr(sep, parts) ==
    IF parts = <<>> THEN <<>>
    ELSE IF Len(parts) = 1 THEN parts[1]
    ELSE parts[1] \o sep \o JoinStr(sep, Tail(parts))

\* Lines 39-73
lines_from_obj(obj) ==
    LET get(i, name) == strip(obj.ideas[i][name], Whitespace)
        Line(i) ==
            LET t == get(i, "title")
                s == get(i, "summary")
                p == get(i, "pillar")
                core == JoinStr(<<" ","-"," ">>, SelectSeq(<<t, s>>, LAMBDA part : part # <<>>))
            IN IF p # <<>>
               THEN IF core # <<>> THEN core \o <<" ","|"," ">> \o p ELSE p
               ELSE core
        filled == SelectSeq(<<1, 2, 3>>,
                            LAMBDA i : get(i, "title") # <<>> \/ get(i, "summary") # <<>>
                                          \/ get(i, "pillar") # <<>>)
        out == [k \in 1..Len(filled) |-> Line(filled[k])]
        stripped == [k \in 1..Len(splitlines(obj.response)) |->
                        strip(splitlines(obj.response)[k], Whitespace)]
        lines == SelectSeq(stripped, LAMBDA line : line # <<>>)
    IN IF out # <<>> THEN out
       ELSE SubSeq(lines, 1, IF Len(lines) < 3 THEN Len(lines) ELSE 3)

\* Python s.replace(old, new) for a non-empty old
RECURSIVE Replace(_, _, _)
Replace(s, old, new) ==
    IF Len(s) < Len(old) THEN s
    ELSE IF SubSeq(s, 1, Len(old)) = old
         THEN new \o Replace(SubSeq(s, Len(old) + 1, Len(s)), old, new)
    ELSE <<Head(s)>> \o Replace(Tail(s), old, new)

\* re.sub(r"\s+", " ", s)
RECURSIVE CollapseWhitespace(_)
CollapseWhitespace(s) ==
    IF s = <<>> THEN <<>>
    ELSE IF Head(s) \in Whitespace
         THEN <<" ">> \o CollapseWhitespace(LStrip(s, Whitespace))
    ELSE <<Head(s)>> \o CollapseWhitespace(Tail(s))

\* The em dash (U+2014) and the en dash (U+2013), written "^" and "=" here
EmDash == "^"
EnDash == "="

\* Lines 89-97 (and, identically, _normalize_for_semantic, lines 200-207).
\* The pattern ^\s*\d+[\.)\-\s]* needs a digit first, s being stripped.
normalize_line(s0) ==
    LET s1 == lower(strip(s0, Whitespace))
        s2 == IF s1 # <<>> /\ Head(s1) \in Digits
              THEN LStrip(LStrip(s1, Digits), {".", ")", "-"} \cup Whitespace)
              ELSE s1
        s3 == Replace(Replace(s2, <<" ", EmDash, " ">>, <<" ", "-", " ">>), <<EnDash>>, <<"-">>)
    IN CollapseWhitespace(s3)

\* Line 100: the non-empty pieces of re.split(r"[^a-z0-9]+", s)
token_set(s) ==
    LET TokenChar(c) == c \in Digits \/ \E i \in 1..26 : LowerAlpha[i] = c IN
    { SubSeq(s, i, j) : <<i, j>> \in
        { p \in (1..Len(s)) \X (1..Len(s)) :
            /\ p[1] <= p[2]
            /\ \A k \in p[1]..p[2] : TokenChar(s[k])
            /\ (p[1] = 1 \/ ~TokenChar(s[p[1] - 1]))
            /\ (p[2] = Len(s) \/ ~TokenChar(s[p[2] + 1])) } }

\* A Python float that is the quotient of two small integers
Frac(num, den) == [num |-> num, den |-> den]
Greater(f, g) == f.num * g.den > g.num * f.den

\* difflib.SequenceMatcher.find_longest_match on a[alo..ahi], b[blo..bhi]
\* (no junk: autojunk only acts on sequences of 200 or more items): the
\* longest common block, the earliest in a, then the earliest in b.
find_longest_match(a, alo, ahi, b, blo, bhi) ==
    LET blocks == { m \in (alo..ahi) \X (blo..bhi) \X (1..(ahi - alo + 1)) :
                      /\ m[1] + m[3] - 1 <= ahi
                      /\ m[2] + m[3] - 1 <= bhi
                      /\ SubSeq(a, m[1], m[1] + m[3] - 1) = SubSeq(b, m[2], m[2] + m[3] - 1) }
    IN IF blocks = {} THEN <<alo, blo, 0>>
       ELSE CHOOSE m \in blocks : \A n \in blocks :
                \/ m[3] > n[3]
                \/ m[3] = n[3] /\ m[1] < n[1]
                \/ m[3] = n[3] /\ m[1] = n[1] /\ m[2] <= n[2]

\* The total size of SequenceMatcher.get_matching_blocks
RECURSIVE matching_size(_, _, _, _, _, _)
matching_size(a, alo, ahi, b, blo, bhi) ==
    LET m == find_longest_match(a, alo, ahi, b, blo, bhi) IN
    IF m[3] = 0 THEN 0
    ELSE m[3] + matching_size(a, alo, m[1] - 1, b, blo, m[2] - 1)
              + matching_size(a, m[1] + m[3], ahi, b, m[2] + m[3], bhi)

\* SequenceMatcher(None, a, b).ratio(): 2.0 * matches / (len(a) + len(b)), 1.0
\* for two empty strings
ratio(a, b) ==
    IF Len(a) + Len(b) = 0 THEN Frac(1, 1)
    ELSE Frac(2 * matching_size(a, 1, Len(a), b, 1, Len(b)), Len(a) + Len(b))

\* Lines 119-126: max(j, r)
line_score(exp, pred) ==
    LET exp_tokens == token_set(exp)
        pred_tokens == token_set(pred)
        j == IF exp_tokens # {} \/ pred_tokens # {}
             THEN Frac(Cardinality(exp_tokens \cap pred_tokens),
                       Cardinality(exp_tokens \cup pred_tokens))
             ELSE Frac(0, 1)
        r == ratio(exp, pred)
    IN IF Greater(r, j) THEN r ELSE j

\* Line 131: best >= 0.6
Threshold == Frac(3, 5)

\* Line 117 (and 248) without the check: a predicted line may be taken again
Unused_any(i, used) == TRUE

\* Line 117 (and 248): if i in used: continue
Unused(i, used) == i \notin used

\* Lines 114-129 (and 245-254): the inner loop from predicted line i on, where
\* scores[i] is the score of the expected line against predicted line i.
\* Indices count from 1 here, so best_idx = 0 stands for the source's -1.
RECURSIVE BestLoop(_, _, _, _)
BestLoop(i, scores, used, acc) ==
    IF i > Len(scores) THEN acc
    ELSE IF ~Unused(i, used) THEN BestLoop(i + 1, scores, used, acc)
    ELSE BestLoop(i + 1, scores, used,
                  IF Greater(scores[i], acc.best)
                  THEN [best |-> scores[i], best_idx |-> i] ELSE acc)

\* Lines 110-133 (and 241-257): the outer loop from expected line k on; pairs
\* lists the (expected, predicted) indices that were matched, in the order
\* they were.  A best score that reaches a positive threshold has an index.
RECURSIVE MatchLoop(_, _, _, _)
MatchLoop(k, scores, threshold, acc) ==
    IF k > Len(scores) THEN acc
    ELSE LET b == BestLoop(1, scores[k], acc.used, [best |-> Frac(0, 1), best_idx |-> 0])
         IN MatchLoop(k + 1, scores, threshold,
                      IF ~Greater(threshold, b.best)
                      THEN [matched |-> acc.matched + 1,
                            used |-> acc.used \cup {b.best_idx},
                            pairs |-> acc.pairs \o << <<k, b.best_idx>> >>]
                      ELSE acc)

\* Lines 76-135
similarity_metric(example, prediction) ==
    LET el == lines_from_obj(example)
        pl == lines_from_obj(prediction)
        expected_lines == [k \in 1..Len(el) |-> normalize_line(el[k])]
        predicted_lines == [k \in 1..Len(pl) |-> normalize_line(pl[k])]
        scores == [k \in 1..Len(el) |->
                     [i \in 1..Len(pl) |-> line_score(expected_lines[k], predicted_lines[i])]]
        m == MatchLoop(1, scores, Threshold, [matched |-> 0, used |-> {}, pairs |-> <<>>])
    IN IF expected_lines = <<>> \/ predicted_lines = <<>>
       THEN [ret |-> Frac(0, 1), expected_lines |-> expected_lines,
             predicted_lines |-> predicted_lines, pairs |-> <<>>]
       ELSE [ret |-> Frac(m.matched, Len(expected_lines)),
             expected_lines |-> expected_lines, predicted_lines |-> predicted_lines,
             pairs |-> m.pairs]

\* A list of floats, and the None that a JSON null embedding becomes
VecList(v) == [kind |-> "list", v |-> v]
VecNone == [kind |-> "None", v |-> <<>>]

\* Lines 138-150 for vectors without negative components, as the square of
\* the cosine (the quotient dot / sqrt(na * nb) is not a ratio of integers)
cosine(a, b) ==
    IF a.v = <<>> \/ b.v = <<>> \/ Len(a.v) # Len(b.v) THEN Frac(0, 1)
    ELSE LET Sum(f) == LET RECURSIVE S(_)
                           S(n) == IF n = 0 THEN 0 ELSE f[n] + S(n - 1)
                       IN S(Len(f))
             dot == Sum([n \in 1..Len(a.v) |-> a.v[n] * b.v[n]])
             na == Sum([n \in 1..Len(a.v) |-> a.v[n] * a.v[n]])
             nb == Sum([n \in 1..Len(b.v) |-> b.v[n] * b.v[n]])
         IN IF na = 0 \/ nb = 0 THEN Frac(0, 1) ELSE Frac(dot * dot, na * nb)

\* Line 210: threshold = 0.65, squared as the cosines are
SemanticThreshold == Frac(4225, 10000)

\* Lines 160-167: _OpenAIEmbedder() leaves the process (SystemExit) without an
\* API key; otherwise the object has its url and an empty _cache
OpenAIEmbedder(e) ==
    IF ~Truthy(e, OPENAI_API_KEY) THEN [exits |-> TRUE, obj |-> None]
    ELSE [exits |-> FALSE,
          obj |-> [url |-> RStrip(getenv(e, OPENAI_BASE_URL,
                                         <<"h","t","t","p","s",":","/","/","a","p","i",".",
                                           "o","p","e","n","a","i",".","c","o","m","/","v","1">>),
                                  {"/"})
                             \o <<"/","e","m","b","e","d","d","i","n","g","s">>,
                   cache |-> << >>]]

\* Line 176: urllib.request.Request(url) raises ValueError("unknown url type")
\* unless the url begins with a scheme, ^[^/:]+:
HasUrlType(url) ==
    \E i \in 2..Len(url) : url[i] = ":" /\ \A j \in 1..(i - 1) : url[j] \notin {"/", ":"}

\* Line 180: urlopen has a handler for these schemes and raises URLError for
\* any other
OpenerHandles(url) ==
    \/ startswith(url, <<"h","t","t","p",":">>)
    \/ startswith(url, <<"h","t","t","p","s",":">>)

\* What the embeddings server answers for one text; variant tells two answers
\* for the same text apart
ServerVector(text, variant) ==
    << variant * (IF text # <<>> /\ Head(text) = "a" THEN 2 ELSE 0),
       variant * (Len(text) % 3) >>

\* Lines 169-187.  http is what the request meets: an exception inside the try
\* block, or a body whose "data" list is as long as texts, one shorter, one
\* longer or absent, or whose first entry has a null or no "embedding".
embed(emb, texts, http) ==
    LET full == [k \in 1..Len(texts) |-> VecList(ServerVector(texts[k], http.variant))]
        vectors ==
            CASE http.kind = "ok" -> full
              [] http.kind = "short" -> SubSeq(full, 1, Len(full) - 1)
              [] http.kind = "long" -> full \o <<VecList(<<9, 9>>)>>
              [] http.kind = "null" -> [k \in 1..Len(full) |-> IF k = 1 THEN VecNone ELSE full[k]]
              [] http.kind = "missing" ->
                    [k \in 1..Len(full) |-> IF k = 1 THEN VecList(<<>>) ELSE full[k]]
              [] OTHER -> <<>>
    IN IF ~HasUrlType(emb.url) THEN [raised |-> TRUE, ret |-> <<>>, requests |-> 0]
       ELSE IF ~OpenerHandles(emb.url) THEN [raised |-> FALSE, ret |-> <<>>, requests |-> 0]
       ELSE IF http.kind = "raises" THEN [raised |-> FALSE, ret |-> <<>>, requests |-> 1]
       ELSE [raised |-> FALSE, ret |-> vectors, requests |-> 1]

\* Lines 189-197
get(emb, text, http) ==
    IF text \in DOMAIN emb.cache /\ emb.cache[text] # VecNone
    THEN [emb |-> emb, raised |-> FALSE, ret |-> emb.cache[text], requests |-> 0]
    ELSE LET vecs == embed(emb, <<text>>, http) IN
         IF vecs.raised
         THEN [emb |-> emb, raised |-> TRUE, ret |-> None, requests |-> vecs.requests]
         ELSE IF vecs.ret # <<>>
         THEN [emb |-> [emb EXCEPT !.cache = (text :> vecs.ret[1]) @@ @],
               raised |-> FALSE, ret |-> vecs.ret[1], requests |-> vecs.requests]
         ELSE [emb |-> emb, raised |-> FALSE, ret |-> VecList(<<>>),
               requests |-> vecs.requests]

\* Lines 223-228: the lines not yet seen and not yet cached, in order
RECURSIVE Uncached(_, _, _)
Uncached(lines, seen, cache) ==
    IF lines = <<>> THEN <<>>
    ELSE IF Head(lines) \notin seen /\ Head(lines) \notin DOMAIN cache
         THEN <<Head(lines)>> \o Uncached(Tail(lines), seen \cup {Head(lines)}, cache)
    ELSE Uncached(Tail(lines), seen, cache)

\* Line 231
BatchComplete(vecs, unique) == vecs # <<>> /\ Len(vecs) = Len(unique)

\* The element of a one-element set: Only({ e(x) : x \in {v} }) is e(v), with
\* v computed once
Only(S) == CHOOSE x \in S : TRUE

\* Lines 216-219 for one object: its lines, normalised
NormalizedLines(obj) ==
    LET l == lines_from_obj(obj) IN [k \in 1..Len(l) |-> normalize_line(l[k])] \o <<>>

\* Lines 232-233: for line, v in zip(unique, vecs): embedder._cache[line] = v
RECURSIVE StoreBatch(_, _, _)
StoreBatch(cache, unique, vecs) ==
    IF unique = <<>> THEN cache
    ELSE StoreBatch((Head(unique) :> Head(vecs)) @@ cache, Tail(unique), Tail(vecs))

\* Lines 241-257: the greedy matching on the cosines of the cached vectors
SemanticMatch(cache, exp_lines, pred_lines) ==
    LET lookup(t) == IF t \in DOMAIN cache THEN cache[t] ELSE VecList(<<>>)
        scores == [k \in 1..Len(exp_lines) |->
                     [i \in 1..Len(pred_lines) |->
                        cosine(lookup(exp_lines[k]), lookup(pred_lines[i]))] \o <<>>] \o <<>>
    IN MatchLoop(1, scores, SemanticThreshold, [matched |-> 0, used |-> {}, pairs |-> <<>>])

\* Lines 213-258: the metric make_semantic_metric returns
semantic_metric(emb, example, prediction, http) ==
    LET base == [emb |-> emb, raised |-> FALSE, ret |-> Frac(0, 1), requests |-> 0,
                 requested |-> <<>>, fallback |-> FALSE]
    IN Only({ Only({ Only({
         IF exp_lines = <<>> \/ pred_lines = <<>> THEN base
         ELSE IF unique # <<>> /\ vecs.raised
         THEN [base EXCEPT !.raised = TRUE, !.ret = None, !.requested = unique]
         ELSE IF unique # <<>> /\ ~BatchComplete(vecs.ret, unique)
         THEN [base EXCEPT !.ret = similarity_metric(example, prediction).ret,
                           !.requests = vecs.requests, !.requested = unique,
                           !.fallback = TRUE]
         ELSE Only({ [base EXCEPT !.emb = [emb EXCEPT !.cache = cache],
                                  !.ret = Frac(SemanticMatch(cache, exp_lines,
                                                             pred_lines).matched,
                                               Len(exp_lines)),
                                  !.requests = IF unique = <<>> THEN 0 ELSE vecs.requests,
                                  !.requested = unique] :
                     cache \in {IF unique = <<>> THEN emb.cache
                                ELSE StoreBatch(emb.cache, unique, vecs.ret)} })
         : vecs \in {embed(emb, unique, http)} })
         : unique \in {Uncached(exp_lines \o pred_lines, {}, emb.cache)} })
         : exp_lines \in {NormalizedLines(example)},
           pred_lines \in {NormalizedLines(prediction)} })

NoIdea == [title |-> <<>>, summary |-> <<>>, pillar |-> <<>>]

\* Nothing at all; two numbered lines; two lines, the first close to "ab cd";
\* one structured idea; the same line three times; a blank response
ObjEmpty == MetricObj(<<NoIdea, NoIdea, NoIdea>>, <<>>)
ObjTwo == MetricObj(<<NoIdea, NoIdea, NoIdea>>,
                    <<"1","."," ","A","b"," ","c","d","\n","2",")"," ","e","f">>)
ObjNear == MetricObj(<<NoIdea, NoIdea, NoIdea>>, <<"a","b"," ","c","e","\n","x","y">>)
ObjStructured ==
    MetricObj(<<[title |-> <<"A","b">>, summary |-> <<" ","c","d">>, pillar |-> <<>>],
                NoIdea, NoIdea>>, <<"x","y">>)
ObjDup == MetricObj(<<NoIdea, NoIdea, NoIdea>>, <<"e","f","\n","e","f","\n","e","f">>)
ObjBlank == MetricObj(<<NoIdea, NoIdea, NoIdea>>, <<" ","\n"," ">>)

\* Four lines, of which three are kept; a pillar only, and dashes
ObjFour == MetricObj(<<NoIdea, NoIdea, NoIdea>>,
                     <<"x","y","\n","a","b"," ","c","d","\n","e","g","\n","e","f">>)
ObjDashes ==
    MetricObj(<<NoIdea, [title |-> <<>>, summary |-> <<>>, pillar |-> <<"E","f">>],
                [title |-> <<"a","b"," ",EmDash," ","c","d">>, summary |-> <<>>,
                 pillar |-> <<"x",EnDash,"y">>]>>, <<>>)

MetricObjs ==
    {ObjEmpty, ObjTwo, ObjNear, ObjStructured, ObjDup, ObjBlank, ObjFour, ObjDashes}

\* The objects the semantic metric is called with
ObjEfXy == MetricObj(<<NoIdea, NoIdea, NoIdea>>, <<"e","f","\n","x","y">>)

SemanticObjs == {ObjEmpty, ObjTwo, ObjEfXy}

HttpOutcomes ==
    { [kind |-> k, variant |-> 1] : k \in {"ok", "short", "long", "raises", "null", "missing"} }
        \cup { [kind |-> "ok", variant |-> 2] }

\* OPENAI_BASE_URL, when set: empty, a host and path without a scheme, and
\* a host:port without a scheme
BaseUrls == { <<>>, <<"h","/","v","1">>, <<"h",":","8","0","/","v","1","/">> }

TuningEnvs ==
    { << >>, (OPENAI_API_KEY :> <<"k","1">>) }
        \cup { (OPENAI_API_KEY :> <<"k","1">>) @@ (OPENAI_BASE_URL :> u) : u \in BaseUrls }

\* What the HTTP request meets matters only to a call that issues one
HttpChoices(issues) == IF issues THEN HttpOutcomes ELSE {[kind |-> "ok", variant |-> 1]}

LineEf == <<"e","f">>
LineXy == <<"x","y">>

InitEmbedder ==
    /\ FreshProcess
    /\ langfuse_pkg = TRUE
    /\ env \in TuningEnvs
    /\ dotenv = [i \in 1..NumCandidates |-> Missing]
    /\ last = [op |-> "init"]

\* make_semantic_metric(): line 211
MakeSemanticMetric ==
    /\ embedder = None
    /\ last.op = "init"
    /\ \E r \in {OpenAIEmbedder(env)} :
         /\ embedder' = r.obj
         /\ last' = [op |-> "make_semantic_metric", exits |-> r.exits]
    /\ UNCHANGED <<env, dotenv, langfuse_pkg, dspy_lm, LANGFUSE_CLIENT, lms_built,
                   clients_built, starter, agent, files>>

\* embedder.embed(texts)
EmbedCall ==
    /\ embedder # None
    /\ \E texts \in {<<LineEf>>, <<LineEf, LineXy>>} :
       \E http \in HttpChoices(embed(embedder, texts, [kind |-> "ok", variant |-> 1]).requests > 0) :
       \E r \in {embed(embedder, texts, http)} :
         last' = [op |-> "embed", texts |-> texts, raised |-> r.raised,
                  ret |-> r.ret, requests |-> r.requests]
    /\ UNCHANGED <<env, dotenv, langfuse_pkg, dspy_lm, LANGFUSE_CLIENT, lms_built,
                   clients_built, starter, agent, files, embedder>>

\* embedder.get(text)
GetCall ==
    /\ embedder # None
    /\ \E text \in {LineEf} :
       \E http \in HttpChoices(get(embedder, text, [kind |-> "ok", variant |-> 1]).requests > 0) :
       \E r \in {get(embedder, text, http)} :
         /\ embedder' = r.emb
         /\ last' = [op |-> "get", text |-> text, before |-> embedder,
                     embedded |-> embed(embedder, <<text>>, http),
                     raised |-> r.raised, ret |-> r.ret, requests |-> r.requests]
    /\ UNCHANGED <<env, dotenv, langfuse_pkg, dspy_lm, LANGFUSE_CLIENT, lms_built,
                   clients_built, starter, agent, files>>

\* metric(example, prediction) of make_semantic_metric
SemanticMetricCall ==
    /\ embedder # None
    /\ \E example \in SemanticObjs : \E prediction \in SemanticObjs :
       \E http \in HttpChoices(semantic_metric(embedder, example, prediction,
                                                [kind |-> "ok", variant |-> 1]).requests > 0) :
       \E r \in {semantic_metric(embedder, example, prediction, http)} :
         /\ embedder' = r.emb
         /\ last' = [op |-> "semantic_metric", example |-> example,
                     prediction |-> prediction, before |-> embedder,
                     embedded |-> embed(embedder, r.requested, http),
                     requested |-> r.requested, raised |-> r.raised, ret |-> r.ret,
                     requests |-> r.requests, fallback |-> r.fallback]
    /\ UNCHANGED <<env, dotenv, langfuse_pkg, dspy_lm, LANGFUSE_CLIENT, lms_built,
                   clients_built, starter, agent, files>>

NextEmbedder == MakeSemanticMetric \/ EmbedCall \/ GetCall \/ SemanticMetricCall

SpecEmbedder == InitEmbedder /\ [][NextEmbedder]_vars

InitSimilarity ==
    /\ FreshProcess
    /\ langfuse_pkg = TRUE
    /\ env = << >>
    /\ dotenv = [i \in 1..NumCandidates |-> Missing]
    /\ \E example \in MetricObjs : \E prediction \in MetricObjs :
         last = [op |-> "input", example |-> example, prediction |-> prediction]

\* similarity_metric(example, prediction)
SimilarityMetricCall ==
    /\ last.op = "input"
    /\ \E r \in {similarity_metric(last.example, last.prediction)} :
         last' = [op |-> "similarity_metric", example |-> last.example,
                  prediction |-> last.prediction, ret |-> r.ret,
                  expected_lines |-> r.expected_lines,
                  predicted_lines |-> r.predicted_lines, pairs |-> r.pairs]
    /\ UNCHANGED <<env, dotenv, langfuse_pkg, dspy_lm, LANGFUSE_CLIENT, lms_built,
                   clients_built, starter, agent, files, embedder>>

NextSimilarity == SimilarityMetricCall

SpecSimilarity == InitSimilarity /\ [][NextSimilarity]_vars

\* C23: a get(text) whose text is cached with a vector returns that vector
\* without an HTTP request; a get whose embed call returned an empty list
\* leaves the cache as it was and returns []; embed never raises; and when
\* the metric's batch comes back with a different number of vectors than
\* lines requested, no entry is added and the result is that of
\* similarity_metric.
EmbedderCacheContract ==
    /\ last.op = "embed" => ~last.raised
    /\ last.op = "get" =>
         /\ (last.text \in DOMAIN last.before.cache
               /\ last.before.cache[last.text].kind = "list") =>
                 /\ last.ret = last.before.cache[last.text]
                 /\ last.requests = 0
                 /\ embedder = last.before
         /\ (last.text \notin DOMAIN last.before.cache
               /\ ~last.embedded.raised /\ last.embedded.ret = <<>>) =>
                 /\ embedder = last.before
                 /\ last.ret = VecList(<<>>)
         /\ (last.text \notin DOMAIN last.before.cache
               /\ ~last.embedded.raised /\ last.embedded.ret # <<>>) =>
                 /\ last.ret = last.embedded.ret[1]
                 /\ embedder.cache = (last.text :> last.ret) @@ last.before.cache
    /\ (last.op = "semantic_metric" /\ last.requested # <<>> /\ ~last.embedded.raised) =>
         IF Len(last.embedded.ret) # Len(last.requested)
         THEN /\ embedder = last.before
              /\ last.fallback
              /\ last.ret = similarity_metric(last.example, last.prediction).ret
         ELSE /\ ~last.fallback
              /\ \A k \in 1..Len(last.requested) :
                    /\ last.requested[k] \notin DOMAIN last.before.cache
                    /\ embedder.cache[last.requested[k]] = last.embedded.ret[k]
              /\ \A t \in DOMAIN last.before.cache : embedder.cache[t] = last.before.cache[t]

\* C24: similarity_metric returns 0 when the expected or the predicted line
\* list is empty; otherwise it returns matched / number of expected lines,
\* where the expected lines are taken in order, each is matched to the first
\* best-scoring predicted line not used before if that score reaches 0.6, and
\* no predicted line is matched twice; so matched is at most the smaller of
\* the two list lengths and the result lies between 0 and 1.
SimilarityIsGreedyMatching ==
    last.op = "similarity_metric" =>
        LET E == last.expected_lines
            P == last.predicted_lines
            pairs == last.pairs
            UsedBefore(k) == { pairs[n][2] : n \in { n \in 1..Len(pairs) : pairs[n][1] < k } }
            Score(k, i) == line_score(E[k], P[i])
        IN IF E = <<>> \/ P = <<>> THEN last.ret = Frac(0, 1)
           ELSE /\ last.ret = Frac(Len(pairs), Len(E))
                /\ \A n, m \in 1..Len(pairs) :
                      n < m => pairs[n][1] < pairs[m][1] /\ pairs[n][2] # pairs[m][2]
                /\ \A k \in 1..Len(E) :
                      LET cand == (1..Len(P)) \ UsedBefore(k)
                          hits == { n \in 1..Len(pairs) : pairs[n][1] = k }
                      IN IF \E i \in cand : ~Greater(Threshold, Score(k, i))
                         THEN \E n \in hits :
                                /\ hits = {n}
                                /\ pairs[n][2] \in cand
                                /\ \A i \in cand :
                                      /\ ~Greater(Score(k, i), Score(k, pairs[n][2]))
                                      /\ Score(k, i) = Score(k, pairs[n][2]) => pairs[n][2] <= i
                         ELSE hits = {}
                /\ Len(pairs) <= Len(E) /\ Len(pairs) <= Len(P)
                /\ last.ret.num >= 0 /\ last.ret.num <= last.ret.den

\* Three equal expected lines against two predicted lines of which one is
\* that line: it is matched once, the result is 1/3
SimilarityIsGreedyMatchingWitness ==
    /\ last.op = "similarity_metric"
    /\ last.example = ObjDup
    /\ last.prediction = ObjTwo
    /\ last.pairs = << <<1, 2>> >>
    /\ last.ret = Frac(1, 3)

====
